---------------------------- MODULE Spec2Model ----------------------------
(***************************************************************************)
(* A model of the Lox tree-walking interpreter of this repository: the     *)
(* scanner (source -> tokens), the recursive-descent parser (tokens ->     *)
(* Program), the resolver (scope distances), the interpreter (a small-step *)
(* machine over the resolved Program) and the driver main().               *)
(*                                                                         *)
(* Source text is a sequence of one-character strings; lexemes and names   *)
(* are strings.  Runtime numbers are integers.                             *)
(***************************************************************************)
EXTENDS Integers, Sequences, FiniteSets, TLC

(* ------------------------------ bounds -------------------------------- *)
\* longest source text the scanner specification enumerates
MaxSrcLen == 3
\* longest token sequence (without the end-of-input token) the parser
\* specification enumerates
MaxToks == 3
\* number of times the counter closure is called in the closure program
MaxCounterCalls == 3
\* longest sequence of top-level statements the resolver specification
\* enumerates
MaxStmts == 2
\* frames the native stack holds before the host overflows: more than the
\* handlers of MAX_CALL_DEPTH + 1 nested calls need
HostStackFrames == 640

VARIABLES
    pc,               \* position of the driver main(): which stage runs
    exitCode,         \* what main() returned (NoExit while it runs)
    source,           \* Scanner::source
    start,            \* Scanner::start
    current,          \* Scanner::current
    line,             \* Scanner::line
    tokens,           \* Scanner::tokens, then Parser::tokens
    hadError,         \* Error.h hadError: one copy per translation unit
    hadRuntimeError,  \* Error.h hadRuntimeError: one copy per translation unit
    pcurrent,         \* Parser::current
    program,          \* the Program built by Parser::Parse, then resolved
    envs,             \* heap of Environment objects
    environment,      \* Interpreter::environment (index into envs)
    funs,             \* heap of LoxFunction objects
    classes,          \* heap of LoxClass objects
    instances,        \* heap of LoxInstance objects
    function_depth,   \* Interpreter::function_depth
    kont,             \* the native call stack of the interpreter (frames)
    ctrl,             \* what the interpreter is evaluating or returning
    output            \* lines written to standard output by print

scanVars   == <<source, start, current, line, tokens>>
flagVars   == <<hadError, hadRuntimeError>>
parseVars  == <<pcurrent, program>>
interpVars == <<envs, environment, funs, classes, instances, function_depth,
                kont, ctrl, output>>
vars == <<pc, exitCode, source, start, current, line, tokens, hadError,
          hadRuntimeError, pcurrent, program, envs, environment, funs,
          classes, instances, function_depth, kont, ctrl, output>>

(* --------------------------- Error.h flags ---------------------------- *)
\* hadError and hadRuntimeError are declared `static` in a header, so every
\* translation unit that includes Error.h owns a private copy, and report()
\* (static too) sets the copy of the unit it was called in.
TranslationUnits == {"Scanner", "Parser", "Resolver", "Interpreter", "main"}

NoFlags == [tu \in TranslationUnits |-> FALSE]

\* report(): hadError = true, in the copy of translation unit tu
report(flags, tu) == [flags EXCEPT ![tu] = TRUE]

\* runtimeError(): hadRuntimeError = true, in the copy of unit tu
runtimeError(flags, tu) == [flags EXCEPT ![tu] = TRUE]

(* ------------------------------ Token --------------------------------- *)
\* Literal = std::variant<nullptr_t, string_view, double, bool>
LitNil       == [kind |-> "nil"]
LitString(s) == [kind |-> "string", s |-> s]
LitNumber(n) == [kind |-> "number", n |-> n]
LitBool(b)   == [kind |-> "bool", b |-> b]

Token(type, lexeme, literal, ln) ==
    [type |-> type, lexeme |-> lexeme, literal |-> literal, line |-> ln]

\* what a string_view reads once the std::string it points into is destroyed
Clobbered == "<dangling>"

(* ------------------------------ Scanner ------------------------------- *)
Digits == {"0", "1", "2", "3", "4", "5", "6", "7", "8", "9"}
Letters == {"a", "b", "c", "d", "e", "f", "g", "h", "i", "j", "k", "l", "m",
            "n", "o", "p", "q", "r", "s", "t", "u", "v", "w", "x", "y", "z",
            "A", "B", "C", "D", "E", "F", "G", "H", "I", "J", "K", "L", "M",
            "N", "O", "P", "Q", "R", "S", "T", "U", "V", "W", "X", "Y", "Z"}
NUL == "NUL"

isDigit(c) == c \in Digits
isAlpha(c) == c \in Letters \/ c = "_"
isAlphaNumeric(c) == isAlpha(c) \/ isDigit(c)

\* Scanner::keywords
keywords ==
    [k \in {"and", "class", "else", "false", "for", "fun", "if", "nil", "or",
            "print", "return", "super", "this", "true", "var", "while"} |->
       CASE k = "and" -> "AND"       [] k = "class" -> "CLASS"
         [] k = "else" -> "ELSE"     [] k = "false" -> "FALSE"
         [] k = "for" -> "FOR"       [] k = "fun" -> "FUN"
         [] k = "if" -> "IF"         [] k = "nil" -> "NIL"
         [] k = "or" -> "OR"         [] k = "print" -> "PRINT"
         [] k = "return" -> "RETURN" [] k = "super" -> "SUPER"
         [] k = "this" -> "THIS"     [] k = "true" -> "TRUE"
         [] k = "var" -> "VAR"       [] k = "while" -> "WHILE"]

\* source.substr(from, n): characters from (0-based), n of them, as a string
RECURSIVE substr(_, _, _)
substr(src, from, n) ==
    IF n <= 0 \/ from >= Len(src) THEN ""
    ELSE src[from + 1] \o substr(src, from + 1, n - 1)

isAtEndAt(src, cur) == cur >= Len(src)
peekAt(src, cur) == IF isAtEndAt(src, cur) THEN NUL ELSE src[cur + 1]
peekNextAt(src, cur) == IF cur + 1 >= Len(src) THEN NUL ELSE src[cur + 2]

\* Scanner::match: the new cursor and whether the character matched
matchAt(src, cur, expected) ==
    IF isAtEndAt(src, cur) THEN [ok |-> FALSE, cur |-> cur]
    ELSE IF src[cur + 1] # expected THEN [ok |-> FALSE, cur |-> cur]
    ELSE [ok |-> TRUE, cur |-> cur + 1]

\* while (isAlphaNumeric(peek())) advance();
RECURSIVE skipAlphaNumeric(_, _)
skipAlphaNumeric(src, cur) ==
    IF isAlphaNumeric(peekAt(src, cur)) THEN skipAlphaNumeric(src, cur + 1)
    ELSE cur

\* while (isDigit(peek())) advance();
RECURSIVE skipDigits(_, _)
skipDigits(src, cur) ==
    IF isDigit(peekAt(src, cur)) THEN skipDigits(src, cur + 1) ELSE cur

\* while (peek() != '\n' && !isAtEnd()) advance();
RECURSIVE skipComment(_, _)
skipComment(src, cur) ==
    IF peekAt(src, cur) # "\n" /\ ~isAtEndAt(src, cur)
    THEN skipComment(src, cur + 1) ELSE cur

\* the loop of loxstring: the cursor and the line it ends with
RECURSIVE skipString(_, _, _)
skipString(src, cur, ln) ==
    IF peekAt(src, cur) # "\"" /\ ~isAtEndAt(src, cur)
    THEN skipString(src, cur + 1, IF peekAt(src, cur) = "\n" THEN ln + 1 ELSE ln)
    ELSE [cur |-> cur, line |-> ln]

\* the result of one scanToken(): cursor, line, tokens added, error reported
ScanResult(cur, ln, toks, err) ==
    [current |-> cur, line |-> ln, toks |-> toks, err |-> err]

\* addToken(type, literal): the lexeme is source[start, current)
addToken(src, st, cur, ln, type, literal) ==
    <<Token(type, substr(src, st, cur - st), literal, ln)>>

\* addToken(type) passes the literal ""
addToken0(src, st, cur, ln, type) ==
    addToken(src, st, cur, ln, type, LitString(""))

\* a faulty loxstring that consumes a closing quote without testing for the
\* end of the source; the property C13_ScanTokensEnds has to reject it
loxstringUnchecked(src, st, cur, ln) ==
    LET s == skipString(src, cur, ln) IN
    ScanResult(s.cur + 1, s.line, <<>>, isAtEndAt(src, s.cur))

\* Scanner::loxstring
loxstring(src, st, cur, ln) ==
    LET s == skipString(src, cur, ln) IN
    IF isAtEndAt(src, s.cur) THEN ScanResult(s.cur, s.line, <<>>, TRUE)
    ELSE ScanResult(s.cur + 1, s.line,
            addToken(src, st, s.cur + 1, s.line, "STRING",
                     LitString(substr(src, st + 1, (s.cur + 1) - 1 - st - 1))),
            FALSE)

\* Scanner::loxnumber.  The literal handed to addToken is a temporary
\* std::string; the only alternative of Literal it converts to is
\* std::string_view, which dangles once the statement ends: `intact` says
\* whether the bytes it points at are still those of the lexeme when read.
loxnumber(src, st, cur, ln, intact) ==
    LET c1 == skipDigits(src, cur)
        c2 == IF peekAt(src, c1) = "." /\ isDigit(peekNextAt(src, c1))
              THEN skipDigits(src, c1 + 1) ELSE c1
        text == substr(src, st, c2 - st)
    IN ScanResult(c2, ln,
          addToken(src, st, c2, ln, "NUMBER",
                   LitString(IF intact THEN text ELSE Clobbered)),
          FALSE)

\* Scanner::identifier
identifier(src, st, cur, ln) ==
    LET c1 == skipAlphaNumeric(src, cur)
        text == substr(src, st, c1 - st)
        type == IF text \in DOMAIN keywords THEN keywords[text] ELSE "IDENTIFIER"
    IN ScanResult(c1, ln, addToken0(src, st, c1, ln, type), FALSE)

\* one- or two-character operator: addToken(match('=') ? two : one)
twoChar(src, st, cur, ln, two, one) ==
    LET m == matchAt(src, cur, "=") IN
    ScanResult(m.cur, ln,
               addToken0(src, st, m.cur, ln, IF m.ok THEN two ELSE one), FALSE)

SingleCharTokens ==
    [c \in {"(", ")", "{", "}", ",", ".", "-", "+", ";", "*"} |->
       CASE c = "(" -> "LEFT_PAREN"  [] c = ")" -> "RIGHT_PAREN"
         [] c = "{" -> "LEFT_BRACE"  [] c = "}" -> "RIGHT_BRACE"
         [] c = "," -> "COMMA"       [] c = "." -> "DOT"
         [] c = "-" -> "MINUS"       [] c = "+" -> "PLUS"
         [] c = ";" -> "SEMICOLON"   [] c = "*" -> "STAR"]

\* Scanner::scanToken, called with start = st and current = st
scanToken(src, st, ln, intact) ==
    LET c == src[st + 1]      \* char current_char = advance();
        cur == st + 1
    IN
    CASE c \in DOMAIN SingleCharTokens ->
            ScanResult(cur, ln, addToken0(src, st, cur, ln, SingleCharTokens[c]), FALSE)
      [] c = "!" -> twoChar(src, st, cur, ln, "BANG_EQUAL", "BANG")
      [] c = "=" -> twoChar(src, st, cur, ln, "EQUAL_EQUAL", "EQUAL")
      [] c = "<" -> twoChar(src, st, cur, ln, "LESS_EQUAL", "LESS")
      [] c = ">" -> twoChar(src, st, cur, ln, "GREATER_EQUAL", "GREATER")
      [] c = "/" ->
            LET m == matchAt(src, cur, "/") IN
            IF m.ok THEN ScanResult(skipComment(src, m.cur), ln, <<>>, FALSE)
            ELSE ScanResult(cur, ln, addToken0(src, st, cur, ln, "SLASH"), FALSE)
      [] c \in {" ", "\r", "\t"} -> ScanResult(cur, ln, <<>>, FALSE)
      [] c = "\n" -> ScanResult(cur, ln + 1, <<>>, FALSE)
      [] c = "\"" -> loxstring(src, st, cur, ln)
      [] c = "o" ->
            \* case 'o': if (match('r')) { addToken(OR); } break;
            LET m == matchAt(src, cur, "r") IN
            IF m.ok THEN ScanResult(m.cur, ln, addToken0(src, st, m.cur, ln, "OR"), FALSE)
            ELSE ScanResult(cur, ln, <<>>, FALSE)
      [] OTHER ->
            IF isDigit(c) THEN loxnumber(src, st, cur, ln, intact)
            ELSE IF isAlpha(c) THEN identifier(src, st, cur, ln)
            ELSE ScanResult(cur, ln, <<>>, TRUE)   \* error(line, "Unexpected character.")

\* one iteration of the loop of Scanner::scanTokens:
\*   start = current; scanToken();
ScanToken ==
    /\ pc = "scan"
    /\ ~isAtEndAt(source, current)
    /\ \E intact \in BOOLEAN :
         LET r == scanToken(source, current, line, intact) IN
         /\ start' = current
         /\ current' = r.current
         /\ line' = r.line
         /\ tokens' = tokens \o r.toks
         /\ hadError' = IF r.err THEN report(hadError, "Scanner") ELSE hadError
    /\ UNCHANGED <<pc, exitCode, source, hadRuntimeError, parseVars, interpVars>>

\* the end of Scanner::scanTokens: the end-of-input token is appended and the
\* tokens are handed to the Parser
ScanEnd ==
    /\ pc = "scan"
    /\ isAtEndAt(source, current)
    /\ tokens' = Append(tokens, Token("LoxEOF", "", LitString(""), line))
    /\ pc' = "parse"
    /\ UNCHANGED <<exitCode, source, start, current, line, flagVars, parseVars,
                   interpVars>>


(* -------------------------------- AST --------------------------------- *)
\* an absent std::optional
None == [type |-> "None"]
\* a default-constructed Stmt: the first alternative, a null ExpressionStmtPtr
NullStmt == [type |-> "Null"]
\* Assignable::distance before the resolver has written it
Unresolved == -1

BinaryExpr(left, token, right) ==
    [type |-> "Binary", left |-> left, token |-> token, op |-> token.type,
     right |-> right]
CallExpr(callee, keyword, arguments) ==
    [type |-> "Call", callee |-> callee, keyword |-> keyword,
     arguments |-> arguments]
GetExpr(object, name) == [type |-> "Get", object |-> object, name |-> name]
SetExpr(object, name, value) ==
    [type |-> "Set", object |-> object, name |-> name, value |-> value]
ThisExpr(name) == [type |-> "This", name |-> name, distance |-> Unresolved]
SuperExpr(name, method) ==
    [type |-> "Super", name |-> name, method |-> method, distance |-> Unresolved]
GroupingExpr(expression) == [type |-> "Grouping", expression |-> expression]
LiteralExpr(value) == [type |-> "Literal", value |-> value]
LogicalExpr(left, op, right) ==
    [type |-> "Logical", left |-> left, op |-> op, right |-> right]
UnaryExpr(token, expression) ==
    [type |-> "Unary", token |-> token, op |-> token.type,
     expression |-> expression]
VarExpr(name) == [type |-> "Var", name |-> name, distance |-> Unresolved]
AssignExpr(name, value) ==
    [type |-> "Assign", name |-> name, value |-> value, distance |-> Unresolved]

ExpressionStmt(expression) == [type |-> "Expression", expression |-> expression]
FunctionStmt(name, ftype, parameters, body) ==
    [type |-> "Function", name |-> name, ftype |-> ftype,
     parameters |-> parameters, body |-> body]
ReturnStmt(keyword, expression) ==
    [type |-> "Return", keyword |-> keyword, expression |-> expression]
IfStmt(condition, thenBranch, elseBranch) ==
    [type |-> "If", condition |-> condition, thenBranch |-> thenBranch,
     elseBranch |-> elseBranch]
PrintStmt(expression) == [type |-> "Print", expression |-> expression]
VarStmt(name, initializer) ==
    [type |-> "VarStmt", name |-> name, initializer |-> initializer]
BlockStmt(statements) == [type |-> "Block", statements |-> statements]
WhileStmt(condition, body) ==
    [type |-> "While", condition |-> condition, body |-> body]
ClassStmt(name, super_class, methods) ==
    [type |-> "Class", name |-> name, super_class |-> super_class,
     methods |-> methods]

(* ------------------------------- Parser ------------------------------- *)
\* A parser state p is a record with the fields cur (Parser::current) and
\* err (the hadError copy of Parser.cpp).  A parsing function yields such a
\* record extended with node (what it returns) and thrown (it left by
\* `throw error(...)`: the error is reported, then the exception propagates;
\* Parser.cpp holds no handler).
MAX_PARAMETERS == 255

POk(node, p) ==
    [node |-> node, cur |-> p.cur, err |-> p.err, wild |-> p.wild,
     thrown |-> FALSE]
PThrow(p) ==
    [node |-> None, cur |-> p.cur, err |-> TRUE, wild |-> p.wild,
     thrown |-> TRUE]
\* the members of the Parser as a declaration finds them; wild is set once
\* previous() has read tokens[current - 1] with current = 0
ParserAt(cur, err) == [cur |-> cur, err |-> err, wild |-> FALSE]

peek(p) == tokens[p.cur + 1]
previous(p) == tokens[p.cur]
isAtEnd(p) == peek(p).type = "LoxEOF"
check(p, type) == IF isAtEnd(p) THEN FALSE ELSE peek(p).type = type
\* Parser::advance: the state after it.  It returns previous(), which it
\* evaluates also when the cursor did not move.
advance(p) ==
    IF ~isAtEnd(p) THEN [p EXCEPT !.cur = p.cur + 1]
    ELSE [p EXCEPT !.wild = @ \/ p.cur = 0]
\* Parser::match over a list of types: ok and the state after it
match(p, types) ==
    IF \E t \in types : check(p, t) THEN [ok |-> TRUE, p |-> advance(p)]
    ELSE [ok |-> FALSE, p |-> p]
\* Parser::consume: node is the token consumed
consume(p, type) ==
    IF check(p, type) THEN POk(peek(p), advance(p)) ELSE PThrow(p)

RECURSIVE expression(_), assignment(_), or_(_), or_loop(_, _, _), and_(_),
          and_loop(_, _, _), equality(_), equality_loop(_, _, _), comparison(_),
          comparison_loop(_, _, _), term(_), term_loop(_, _, _), factor(_),
          factor_loop(_, _, _), unary(_), call(_), call_loop(_, _),
          finishCall(_, _), finishCall_loop(_, _), finishCall_body(_),
          finishCall_passes(_, _), primary(_)
RECURSIVE declaration(_), statement(_), block(_), block_loop(_, _),
          function(_, _), function_params(_, _), function_passes(_, _),
          classDeclaration(_),
          class_methods(_, _), forStatement(_), ifStatement(_),
          whileStatement(_)

\* The({F(x) : x \in {e}}) is F(e) with e computed once: x plays a local
\* variable of the C++ function
The(S) == CHOOSE x \in S : TRUE

\* Parser::primary.  There is no case for IDENTIFIER.
primary(p) ==
    IF check(p, "FALSE") THEN POk(LiteralExpr(LitBool(FALSE)), advance(p))
    ELSE IF check(p, "TRUE") THEN POk(LiteralExpr(LitBool(TRUE)), advance(p))
    ELSE IF check(p, "NIL") THEN POk(LiteralExpr(LitNil), advance(p))
    ELSE IF check(p, "NUMBER") \/ check(p, "STRING")
         THEN POk(LiteralExpr(peek(p).literal), advance(p))
    ELSE IF check(p, "LEFT_PAREN") THEN
         The({
             IF e.thrown THEN e ELSE
             LET c == consume(e, "RIGHT_PAREN") IN
             IF c.thrown THEN c ELSE
             POk(GroupingExpr(e.node), c)
             : e \in {expression(advance(p))} })
    ELSE IF check(p, "THIS") THEN POk(ThisExpr(peek(p)), advance(p))
    ELSE IF check(p, "SUPER") THEN
         LET d == consume(advance(p), "DOT") IN
         IF d.thrown THEN d ELSE
         LET m == consume(d, "IDENTIFIER") IN
         IF m.thrown THEN m ELSE
         POk(SuperExpr(peek(p), m.node), m)
    ELSE PThrow(p)

\* A do-while of the parser is carried by a record: node is the list built so
\* far, cur and err are the parser's, thrown says that the body left by an
\* exception, more that the condition of the loop held.
Looping(node, p) ==
    [node |-> node, cur |-> p.cur, err |-> p.err, wild |-> p.wild,
     thrown |-> FALSE,
     more |-> TRUE]
LoopLeft(r) ==
    [node |-> r.node, cur |-> r.cur, err |-> r.err, wild |-> r.wild,
     thrown |-> r.thrown,
     more |-> FALSE]

\* what the function goes on with after the loop
LoopResult(st) ==
    [node |-> st.node, cur |-> st.cur, err |-> st.err, wild |-> st.wild,
     thrown |-> st.thrown]

\* one pass through the do-while of finishCall.  More than MAX_PARAMETERS
\* arguments only write a message to llvm::errs().
finishCall_body(st) ==
    The({
        IF e.thrown THEN LoopLeft(e) ELSE
        LET m == match(e, {"COMMA"}) IN
        IF m.ok THEN Looping(Append(st.node, e.node), m.p)
        ELSE LoopLeft(POk(Append(st.node, e.node), e))
        : e \in {expression(st)} })

\* at most n passes through the do-while of finishCall, the second half
\* of them after the first half
finishCall_passes(st, n) ==
    IF ~st.more \/ n = 0 THEN st
    ELSE IF n = 1 THEN finishCall_body(st)
    ELSE The({ finishCall_passes(half, n - n \div 2)
               : half \in {finishCall_passes(st, n \div 2)} })

\* the do-while of finishCall: args are the arguments parsed so far.  Every
\* pass consumes a token, so there are no more passes than tokens.
finishCall_loop(args, p) ==
    The({ LoopResult(st)
          : st \in {finishCall_passes(Looping(args, p), Len(tokens))} })

\* Parser::finishCall
finishCall(callee, p) ==
    The({
        IF a.thrown THEN a ELSE
        LET c == consume(a, "RIGHT_PAREN") IN
        IF c.thrown THEN c ELSE
        POk(CallExpr(callee, c.node, a.node), c)
        : a \in {IF ~check(p, "RIGHT_PAREN") THEN finishCall_loop(<<>>, p)
         ELSE POk(<<>>, p)} })

\* the while (true) of Parser::call
call_loop(expr, p) ==
    IF check(p, "LEFT_PAREN") THEN
        The({
            IF f.thrown THEN f ELSE
            call_loop(f.node, f)
            : f \in {finishCall(expr, advance(p))} })
    ELSE IF check(p, "DOT") THEN
        LET n == consume(advance(p), "IDENTIFIER") IN
        IF n.thrown THEN n ELSE
        call_loop(GetExpr(expr, n.node), n)
    ELSE POk(expr, p)

\* Parser::call
call(p) ==
    The({
        IF e.thrown THEN e ELSE
        call_loop(e.node, e)
        : e \in {primary(p)} })

\* Parser::unary
unary(p) ==
    IF check(p, "BANG") \/ check(p, "MINUS") THEN
        The({
            IF right.thrown THEN right ELSE
            POk(UnaryExpr(peek(p), right.node), right)
            : right \in {unary(advance(p))} })
    ELSE call(p)

\* the loop of Parser::factor: left is the expression built from the operands
\* parsed so far (None before the first), operator_ the token before p
factor_loop(left, operator_, p) ==
    The({
        IF right.thrown THEN right ELSE
        LET expr == IF left = None THEN right.node
                    ELSE BinaryExpr(left, operator_, right.node)
            m == match(right, {"SLASH", "STAR"})
        IN IF m.ok THEN factor_loop(expr, previous(m.p), m.p) ELSE POk(expr, right)
        : right \in {unary(p)} })

\* Parser::factor
factor(p) ==
    factor_loop(None, None, p)

\* the loop of Parser::term: left is the expression built from the operands
\* parsed so far (None before the first), operator_ the token before p
term_loop(left, operator_, p) ==
    The({
        IF right.thrown THEN right ELSE
        LET expr == IF left = None THEN right.node
                    ELSE BinaryExpr(left, operator_, right.node)
            m == match(right, {"MINUS", "PLUS"})
        IN IF m.ok THEN term_loop(expr, previous(m.p), m.p) ELSE POk(expr, right)
        : right \in {factor(p)} })

\* Parser::term
term(p) ==
    term_loop(None, None, p)

\* the loop of Parser::comparison: left is the expression built from the operands
\* parsed so far (None before the first), operator_ the token before p
comparison_loop(left, operator_, p) ==
    The({
        IF right.thrown THEN right ELSE
        LET expr == IF left = None THEN right.node
                    ELSE BinaryExpr(left, operator_, right.node)
            m == match(right, {"GREATER", "GREATER_EQUAL", "LESS", "LESS_EQUAL"})
        IN IF m.ok THEN comparison_loop(expr, previous(m.p), m.p) ELSE POk(expr, right)
        : right \in {term(p)} })

\* Parser::comparison
comparison(p) ==
    comparison_loop(None, None, p)

\* the loop of Parser::equality: left is the expression built from the operands
\* parsed so far (None before the first), operator_ the token before p
equality_loop(left, operator_, p) ==
    The({
        IF right.thrown THEN right ELSE
        LET expr == IF left = None THEN right.node
                    ELSE BinaryExpr(left, operator_, right.node)
            m == match(right, {"BANG_EQUAL", "EQUAL_EQUAL"})
        IN IF m.ok THEN equality_loop(expr, previous(m.p), m.p) ELSE POk(expr, right)
        : right \in {comparison(p)} })

\* Parser::equality
equality(p) ==
    equality_loop(None, None, p)

\* the loop of Parser::and_: left is the expression built from the operands
\* parsed so far (None before the first), operator_ the token before p
and_loop(left, operator_, p) ==
    The({
        IF right.thrown THEN right ELSE
        LET expr == IF left = None THEN right.node
                    ELSE LogicalExpr(left, "AND", right.node)
            m == match(right, {"AND"})
        IN IF m.ok THEN and_loop(expr, previous(m.p), m.p) ELSE POk(expr, right)
        : right \in {equality(p)} })

\* Parser::and_
and_(p) ==
    and_loop(None, None, p)

\* the loop of Parser::or_: left is the expression built from the operands
\* parsed so far (None before the first), operator_ the token before p
or_loop(left, operator_, p) ==
    The({
        IF right.thrown THEN right ELSE
        LET expr == IF left = None THEN right.node
                    ELSE LogicalExpr(left, "OR", right.node)
            m == match(right, {"OR"})
        IN IF m.ok THEN or_loop(expr, previous(m.p), m.p) ELSE POk(expr, right)
        : right \in {and_(p)} })

\* Parser::or_
or_(p) ==
    or_loop(None, None, p)

\* Parser::assignment
assignment(p) ==
    The({
        IF e.thrown THEN e ELSE
        IF check(e, "EQUAL") THEN
            The({
                IF value.thrown THEN value ELSE
                IF e.node.type = "Var"
                THEN POk(AssignExpr(e.node.name, value.node), value)
                ELSE IF e.node.type = "Get"
                THEN POk(SetExpr(e.node.object, e.node.name, value.node), value)
                \* error(equals, "Invalid assignment target."); return expr;
                ELSE [POk(e.node, value) EXCEPT !.err = TRUE]
                : value \in {assignment(advance(e))} })
        ELSE e
        : e \in {or_(p)} })

\* Parser::expression
expression(p) ==
    assignment(p)

\* Parser::expressionStatement
expressionStatement(p) ==
    The({
        IF e.thrown THEN e ELSE
        LET c == consume(e, "SEMICOLON") IN
        IF c.thrown THEN c ELSE
        POk(ExpressionStmt(e.node), c)
        : e \in {expression(p)} })

\* Parser::printStatement
printStatement(p) ==
    The({
        IF e.thrown THEN e ELSE
        LET c == consume(e, "SEMICOLON") IN
        IF c.thrown THEN c ELSE
        POk(PrintStmt(e.node), c)
        : e \in {expression(p)} })

\* Parser::returnStatement, entered after match(RETURN)
returnStatement(p) ==
    The({
        IF v.thrown THEN v ELSE
        LET c == consume(v, "SEMICOLON") IN
        IF c.thrown THEN c ELSE
        POk(ReturnStmt(previous(p), v.node), c)
        : v \in {IF ~check(p, "SEMICOLON") THEN expression(p) ELSE POk(None, p)} })

\* Parser::varDeclaration
varDeclaration(p) ==
    LET name == consume(p, "IDENTIFIER") IN
    IF name.thrown THEN name ELSE
    The({
        IF init.thrown THEN init ELSE
        LET c == consume(init, "SEMICOLON") IN
        IF c.thrown THEN c ELSE
        POk(VarStmt(name.node, init.node), c)
        : init \in {IF check(name, "EQUAL") THEN expression(advance(name))
         ELSE POk(LiteralExpr(LitNil), name)} })

\* the loop of Parser::block: stmts are the statements parsed so far
block_loop(stmts, p) ==
    IF ~check(p, "RIGHT_BRACE") /\ ~isAtEnd(p) THEN
        The({
            IF d.thrown THEN d ELSE
            block_loop(Append(stmts, d.node), d)
            : d \in {declaration(p)} })
    ELSE POk(stmts, p)

\* Parser::block
block(p) ==
    The({
        IF b.thrown THEN b ELSE
        LET c == consume(b, "RIGHT_BRACE") IN
        IF c.thrown THEN c ELSE
        POk(b.node, c)
        : b \in {block_loop(<<>>, p)} })

\* one pass through the do-while over the parameters of Parser::function:
\* more than MAX_PARAMETERS of them are reported by error(), which does not
\* throw
function_body(st) ==
    The({
        IF n.thrown THEN LoopLeft(n) ELSE
        LET m == match(n, {"COMMA"}) IN
        IF m.ok THEN Looping(Append(st.node, n.node), m.p)
        ELSE LoopLeft(POk(Append(st.node, n.node), n))
        : n \in {consume(IF Len(st.node) >= MAX_PARAMETERS
                         THEN [st EXCEPT !.err = TRUE] ELSE st,
                         "IDENTIFIER")} })

\* at most n passes through the do-while of Parser::function
function_passes(st, n) ==
    IF ~st.more \/ n = 0 THEN st
    ELSE IF n = 1 THEN function_body(st)
    ELSE The({ function_passes(half, n - n \div 2)
               : half \in {function_passes(st, n \div 2)} })

\* the do-while over the parameters of Parser::function
function_params(params, p) ==
    The({ LoopResult(st)
          : st \in {function_passes(Looping(params, p), Len(tokens))} })

\* Parser::function
function(type, p) ==
    LET name == consume(p, "IDENTIFIER") IN
    IF name.thrown THEN name ELSE
    LET lp == consume(name, "LEFT_PAREN") IN
    IF lp.thrown THEN lp ELSE
    The({
        IF params.thrown THEN params ELSE
        LET rp == consume(params, "RIGHT_PAREN") IN
        IF rp.thrown THEN rp ELSE
        LET lb == consume(rp, "LEFT_BRACE") IN
        IF lb.thrown THEN lb ELSE
        The({
            IF body.thrown THEN body ELSE
            POk(FunctionStmt(name.node,
                             IF type = "METHOD" /\ name.node.lexeme = "init"
                             THEN "INITIALIZER" ELSE type,
                             params.node, body.node), body)
            : body \in {block(lb)} })
        : params \in {IF ~check(lp, "RIGHT_PAREN") THEN function_params(<<>>, lp)
         ELSE POk(<<>>, lp)} })

\* the loop over the methods in Parser::classDeclaration
class_methods(methods, p) ==
    IF ~check(p, "RIGHT_BRACE") /\ ~isAtEnd(p) THEN
        The({
            IF f.thrown THEN f ELSE
            class_methods(Append(methods, f.node), f)
            : f \in {function("METHOD", p)} })
    ELSE POk(methods, p)

\* Parser::classDeclaration
classDeclaration(p) ==
    LET name == consume(p, "IDENTIFIER") IN
    IF name.thrown THEN name ELSE
    LET sup == IF check(name, "LESS") THEN consume(advance(name), "IDENTIFIER")
           ELSE POk(None, name) IN
    IF sup.thrown THEN sup ELSE
    LET lb == consume(sup, "LEFT_BRACE") IN
    IF lb.thrown THEN lb ELSE
    The({
        IF methods.thrown THEN methods ELSE
        LET rb == consume(methods, "RIGHT_BRACE") IN
        IF rb.thrown THEN rb ELSE
        POk(ClassStmt(name.node,
                      IF check(name, "LESS") THEN VarExpr(sup.node) ELSE None,
                      methods.node), rb)
        : methods \in {class_methods(<<>>, lb)} })

\* a faulty desugaring that runs the increment before the body; the property
\* C15_ForIsWhile has to reject it
desugarForIncrementFirst(initializer, condition, increment, body) ==
    LET body1 == IF increment # None
                 THEN BlockStmt(<<ExpressionStmt(increment), body>>)
                 ELSE body
        body2 == WhileStmt(IF condition = None THEN LiteralExpr(LitBool(TRUE))
                           ELSE condition, body1)
    IN IF initializer # None THEN BlockStmt(<<initializer, body2>>) ELSE body2

\* the tail of Parser::forStatement: the tree built from the clauses parsed
\* (None for a clause that is absent) and the body
desugarFor(initializer, condition, increment, body) ==
    LET body1 == IF increment # None
                 THEN BlockStmt(<<body, ExpressionStmt(increment)>>)
                 ELSE body
        body2 == WhileStmt(IF condition = None THEN LiteralExpr(LitBool(TRUE))
                           ELSE condition, body1)
    IN IF initializer # None THEN BlockStmt(<<initializer, body2>>) ELSE body2

\* Parser::forStatement
forStatement(p) ==
    LET lp == consume(p, "LEFT_PAREN") IN
    IF lp.thrown THEN lp ELSE
    The({
        IF initializer.thrown THEN initializer ELSE
        The({
            IF condition.thrown THEN condition ELSE
            LET s1 == consume(condition, "SEMICOLON") IN
            IF s1.thrown THEN s1 ELSE
            The({
                IF increment.thrown THEN increment ELSE
                LET rp == consume(increment, "RIGHT_PAREN") IN
                IF rp.thrown THEN rp ELSE
                The({
                    IF body.thrown THEN body ELSE
                    POk(desugarFor(initializer.node, condition.node,
                                   increment.node, body.node), body)
                    : body \in {statement(rp)} })
                : increment \in {IF ~check(s1, "RIGHT_PAREN") THEN expression(s1)
                 ELSE POk(None, s1)} })
            : condition \in {IF ~check(initializer, "SEMICOLON") THEN expression(initializer)
             ELSE POk(None, initializer)} })
        : initializer \in {IF check(lp, "SEMICOLON") THEN POk(None, advance(lp))
         ELSE IF check(lp, "VAR") THEN varDeclaration(advance(lp))
         ELSE expressionStatement(lp)} })

\* Parser::ifStatement
ifStatement(p) ==
    LET lp == consume(p, "LEFT_PAREN") IN
    IF lp.thrown THEN lp ELSE
    The({
        IF condition.thrown THEN condition ELSE
        LET rp == consume(condition, "RIGHT_PAREN") IN
        IF rp.thrown THEN rp ELSE
        The({
            IF thenBranch.thrown THEN thenBranch ELSE
            The({
                IF elseBranch.thrown THEN elseBranch ELSE
                POk(IfStmt(condition.node, thenBranch.node, elseBranch.node), elseBranch)
                : elseBranch \in {IF check(thenBranch, "ELSE") THEN statement(advance(thenBranch))
                 ELSE POk(None, thenBranch)} })
            : thenBranch \in {statement(rp)} })
        : condition \in {expression(lp)} })

\* Parser::whileStatement
whileStatement(p) ==
    LET lp == consume(p, "LEFT_PAREN") IN
    IF lp.thrown THEN lp ELSE
    The({
        IF condition.thrown THEN condition ELSE
        LET rp == consume(condition, "RIGHT_PAREN") IN
        IF rp.thrown THEN rp ELSE
        The({
            IF body.thrown THEN body ELSE
            POk(WhileStmt(condition.node, body.node), body)
            : body \in {statement(rp)} })
        : condition \in {expression(lp)} })

\* Parser::statement
statement(p) ==
    IF check(p, "RETURN") THEN returnStatement(advance(p))
    ELSE IF check(p, "FOR") THEN forStatement(advance(p))
    ELSE IF check(p, "PRINT") THEN printStatement(advance(p))
    ELSE IF check(p, "WHILE") THEN whileStatement(advance(p))
    ELSE IF check(p, "IF") THEN ifStatement(advance(p))
    ELSE IF check(p, "LEFT_BRACE") THEN
         The({
             IF b.thrown THEN b ELSE
             POk(BlockStmt(b.node), b)
             : b \in {block(advance(p))} })
    ELSE expressionStatement(p)

\* the cursor is where the loop of Parser::synchronize stops: at the end of
\* the input, behind a semicolon, or in front of a keyword that starts a
\* statement
synchronize_stops(c) ==
    \/ tokens[c + 1].type = "LoxEOF"
    \/ c >= 1 /\ tokens[c].type = "SEMICOLON"
    \/ tokens[c + 1].type \in {"CLASS", "FUN", "VAR", "FOR", "IF", "WHILE",
                               "PRINT", "RETURN"}

\* the loop of Parser::synchronize: the cursor moves to the first place at
\* or behind it where the loop stops.  Its first test reads previous(),
\* which is tokens[-1] when the cursor is 0.
synchronize_loop(p) ==
    LET stops == {c \in p.cur..(Len(tokens) - 1) : synchronize_stops(c)} IN
    [p EXCEPT !.cur = CHOOSE c \in stops : \A b \in stops : c <= b,
              !.wild = @ \/ (p.cur = 0 /\ ~isAtEnd(p))]

\* a faulty synchronize that does not advance before its loop; the
\* property C28_ParseTerminates has to reject it
synchronizeStays(p) == synchronize_loop(p)

\* Parser::synchronize
synchronize(p) ==
    synchronize_loop(advance(p))

\* Parser::declaration.  No handler surrounds the parsing functions; once
\* hadError is set a declaration that is no class, var or fun is skipped by
\* synchronize() and std::make_optional<Stmt>() yields a default Stmt.
declaration(p) ==
    IF check(p, "CLASS") THEN classDeclaration(advance(p))
    ELSE IF check(p, "VAR") THEN varDeclaration(advance(p))
    ELSE IF check(p, "FUN") THEN function("FUNCTION", advance(p))
    ELSE IF p.err THEN POk(NullStmt, synchronize(p))
    ELSE statement(p)

\* one iteration of the loop of Parser::Parse.  An exception thrown by a
\* parsing function leaves Parse and main(), which has no handler either:
\* the process is terminated.
ParseDeclaration ==
    /\ pc = "parse"
    /\ ~isAtEnd([cur |-> pcurrent])
    /\ LET d == declaration(ParserAt(pcurrent, hadError["Parser"])) IN
       /\ hadError' = [hadError EXCEPT !["Parser"] = d.err]
       /\ IF d.wild
          THEN /\ pc' = "undefined"
               /\ UNCHANGED <<pcurrent, program>>
          ELSE IF d.thrown
          THEN /\ pc' = "terminated"
               /\ UNCHANGED <<pcurrent, program>>
          ELSE /\ pcurrent' = d.cur
               /\ program' = Append(program, d.node)
               /\ pc' = pc
    /\ UNCHANGED <<exitCode, scanVars, hadRuntimeError, interpVars>>

\* Parser::Parse returns the Program to main()
ParseEnd ==
    /\ pc = "parse"
    /\ isAtEnd([cur |-> pcurrent])
    /\ pc' = "parsed"
    /\ UNCHANGED <<exitCode, scanVars, flagVars, parseVars, interpVars>>

(* ----------------------------- Resolver ------------------------------- *)
\* The resolver state: the stack of scopes (name -> defined?), the kind of
\* the enclosing function and class, whether error() was called (hadError
\* of Resolver.cpp) and the messages it wrote, and whether a null statement
\* pointer was visited.
EmptyMap == [x \in {} |-> FALSE]

put(map, k, v) == [x \in DOMAIN map \cup {k} |-> IF x = k THEN v ELSE map[x]]

NewResolver ==
    [scopes |-> <<>>, currentFunction |-> "NONE", currentClass |-> "NONE",
     err |-> FALSE, errors |-> <<>>, crashed |-> FALSE, depths |-> <<>>]

\* depths is no member of the Resolver: it records scopes.size() at every
\* statement the visitor is applied to, in the order of the visits
visited(r) == [r EXCEPT !.depths = Append(@, Len(r.scopes))]

\* error(token, message) of Error.h as the Resolver calls it: the message is
\* written and hadError of Resolver.cpp is set
error(r, message) == [r EXCEPT !.err = TRUE, !.errors = Append(@, message)]

beginScope(r) == [r EXCEPT !.scopes = Append(@, EmptyMap)]

\* a faulty endScope that pops nothing; the property C29_ScopesBalanced has
\* to reject it
endScopeKept(r) == r

endScope(r) == [r EXCEPT !.scopes = SubSeq(@, 1, Len(@) - 1)]

\* scopes.back()[name] = v
setBack(r, name, v) ==
    [r EXCEPT !.scopes[Len(r.scopes)] = put(@, name, v)]

\* a faulty declare that marks the name as defined at once; the property
\* C25_OwnInitializerReported has to reject it
declareDefined(r, name) ==
    IF r.scopes = <<>> THEN r ELSE setBack(r, name, TRUE)

\* Resolver::declare
declare(r, name) ==
    IF r.scopes = <<>> THEN r
    ELSE LET r1 == IF name \in DOMAIN r.scopes[Len(r.scopes)]
                   THEN error(r, "Already a variable with this name in this scope.") ELSE r
         IN setBack(r1, name, FALSE)

\* Resolver::define
define(r, name) ==
    IF r.scopes = <<>> THEN r ELSE setBack(r, name, TRUE)

RECURSIVE resolveLocal_loopOneMore(_, _, _)
\* a faulty resolveLocal_loop that counts one hop too many; the scope
\* distance property C1_ScopeDistance has to reject it
resolveLocal_loopOneMore(scopes, i, name) ==
    IF i < 1 THEN Unresolved
    ELSE IF name \in DOMAIN scopes[i] THEN Len(scopes) - i + 1
    ELSE resolveLocal_loopOneMore(scopes, i - 1, name)

RECURSIVE resolveLocal_loop(_, _, _)
\* the loop of Resolver::resolveLocal, from the innermost scope outwards;
\* scope i of a stack of n scopes (counted from 1) is n - i hops away
resolveLocal_loop(scopes, i, name) ==
    IF i < 1 THEN Unresolved
    ELSE IF name \in DOMAIN scopes[i] THEN Len(scopes) - i
    ELSE resolveLocal_loop(scopes, i - 1, name)

\* Resolver::resolveLocal: the node keeps its distance when no scope has name
resolveLocal(r, expr, name) ==
    LET d == resolveLocal_loop(r.scopes, Len(r.scopes), name) IN
    IF d = Unresolved THEN expr ELSE [expr EXCEPT !.distance = d]

RResult(node, r) == [node |-> node, r |-> r]

RECURSIVE resolveExpr(_, _), resolveExprs(_, _, _), resolveStmt(_, _),
          resolveStmts(_, _, _), resolveFunction(_, _, _),
          resolveMethods(_, _, _)

\* Resolver::operator()(VarExprPtr)
resolveVarExpr(e, r) ==
    IF /\ r.scopes # <<>>
       /\ e.name.lexeme \in DOMAIN r.scopes[Len(r.scopes)]
       /\ ~r.scopes[Len(r.scopes)][e.name.lexeme]
    THEN RResult(e, error(r, "Can't read local variable in its own initializer."))
    ELSE RResult(resolveLocal(r, e, e.name.lexeme), r)

\* Resolver::resolve(Expr) and the operator() of every expression class
resolveExpr(e, r) ==
    CASE e.type = "None" -> RResult(e, r)
      [] e.type = "Literal" -> RResult(e, r)
      [] e.type = "Var" -> resolveVarExpr(e, r)
      [] e.type = "Assign" ->
            LET v == resolveExpr(e.value, r)
                e1 == [e EXCEPT !.value = v.node]
            IN RResult(resolveLocal(v.r, e1, e.name.lexeme), v.r)
      [] e.type \in {"Binary", "Logical"} ->
            LET l == resolveExpr(e.left, r)
                rt == resolveExpr(e.right, l.r)
            IN RResult([e EXCEPT !.left = l.node, !.right = rt.node], rt.r)
      [] e.type = "Call" ->
            LET c == resolveExpr(e.callee, r)
                a == resolveExprs(e.arguments, <<>>, c.r)
            IN RResult([e EXCEPT !.callee = c.node, !.arguments = a.node], a.r)
      [] e.type = "Get" ->
            LET o == resolveExpr(e.object, r)
            IN RResult([e EXCEPT !.object = o.node], o.r)
      [] e.type = "Set" ->
            LET o == resolveExpr(e.object, r)
                v == resolveExpr(e.value, o.r)
            IN RResult([e EXCEPT !.object = o.node, !.value = v.node], v.r)
      [] e.type = "This" ->
            IF r.currentClass = "NONE"
            THEN RResult(e, error(r, "Can't use 'this' outside of a class."))
            ELSE RResult(resolveLocal(r, e, e.name.lexeme), r)
      [] e.type = "Super" ->
            LET r1 == IF r.currentClass = "NONE"
                      THEN error(r, "Can't use 'super' outside of a class.")
                      ELSE IF r.currentClass # "SUBCLASS"
                      THEN error(r, "Can't use 'super' in a class with no superclass.")
                      ELSE r
            IN RResult(resolveLocal(r1, e, e.name.lexeme), r1)
      [] e.type \in {"Grouping", "Unary"} ->
            LET x == resolveExpr(e.expression, r)
            IN RResult([e EXCEPT !.expression = x.node], x.r)

resolveExprs(es, done, r) ==
    IF es = <<>> THEN RResult(done, r)
    ELSE LET x == resolveExpr(Head(es), r)
         IN resolveExprs(Tail(es), Append(done, x.node), x.r)

\* the loop over the parameters in Resolver::resolveFunction
declareParams(r, params) ==
    LET RECURSIVE go(_, _)
        go(rr, i) == IF i > Len(params) THEN rr
                     ELSE go(define(declare(rr, params[i].lexeme),
                                    params[i].lexeme), i + 1)
    IN go(r, 1)

\* a faulty resolveFunction that leaves currentFunction as the function set
\* it; the property C16_TopLevelReturnReported has to reject it
resolveFunctionNoRestore(fn, functionType, r) ==
    LET r1 == declareParams(beginScope([r EXCEPT
                                !.currentFunction = functionType]),
                            fn.parameters)
        b == resolveStmts(fn.body, <<>>, r1)
    IN RResult([fn EXCEPT !.body = b.node], endScope(b.r))

\* Resolver::resolveFunction
resolveFunction(fn, functionType, r) ==
    LET enclosingFunction == r.currentFunction
        r1 == declareParams(beginScope([r EXCEPT
                                !.currentFunction = functionType]),
                            fn.parameters)
        b == resolveStmts(fn.body, <<>>, r1)
    IN RResult([fn EXCEPT !.body = b.node],
               [endScope(b.r) EXCEPT !.currentFunction = enclosingFunction])

resolveMethods(ms, done, r) ==
    IF ms = <<>> THEN RResult(done, r)
    ELSE LET m == Head(ms)
             x == resolveFunction(m, IF m.name.lexeme = "init"
                                     THEN "INITIALIZER" ELSE "METHOD", r)
         IN resolveMethods(Tail(ms), Append(done, x.node), x.r)

\* a faulty ClassStmt visitor that leaves currentClass as the class set it;
\* the property C17_SuperReportedOutsideSubclass has to reject it
resolveClassStmtNoRestore(s, r) ==
    LET has == s.super_class # None
        r1 == define(declare([r EXCEPT !.currentClass = "CLASS"],
                             s.name.lexeme), s.name.lexeme)
        sup == IF has
               THEN resolveVarExpr(s.super_class,
                                   [r1 EXCEPT !.currentClass = "SUBCLASS"])
               ELSE RResult(None, r1)
        r3 == IF has THEN setBack(beginScope(sup.r), "super", TRUE) ELSE sup.r
        ms == resolveMethods(s.methods, <<>>,
                             setBack(beginScope(r3), "this", TRUE))
        r5 == endScope(ms.r)
    IN RResult([s EXCEPT !.super_class = sup.node, !.methods = ms.node],
               IF has THEN endScope(r5) ELSE r5)

\* Resolver::operator()(ClassStmtPtr)
resolveClassStmt(s, r) ==
    LET enclosingClass == r.currentClass
        has == s.super_class # None
        r1 == define(declare([r EXCEPT !.currentClass = "CLASS"],
                             s.name.lexeme), s.name.lexeme)
        r2 == IF has /\ s.name.lexeme = s.super_class.name.lexeme
              THEN error(r1, "A class can't inherit from itself.") ELSE r1
        sup == IF has
               THEN resolveVarExpr(s.super_class,
                                   [r2 EXCEPT !.currentClass = "SUBCLASS"])
               ELSE RResult(None, r2)
        r3 == IF has THEN setBack(beginScope(sup.r), "super", TRUE) ELSE sup.r
        r4 == setBack(beginScope(r3), "this", TRUE)
        ms == resolveMethods(s.methods, <<>>, r4)
        r5 == endScope(ms.r)
        r6 == IF has THEN endScope(r5) ELSE r5
    IN RResult([s EXCEPT !.super_class = sup.node, !.methods = ms.node],
               [r6 EXCEPT !.currentClass = enclosingClass])

\* Resolver::resolve(Stmt) and the operator() of every statement class.
\* A default-constructed Stmt holds a null ExpressionStmtPtr, which the
\* visitor dereferences.
resolveStmt(s, entered) ==
    LET r == visited(entered) IN
    CASE s.type = "Null" -> RResult(s, [r EXCEPT !.crashed = TRUE])
      [] s.type = "Block" ->
            LET b == resolveStmts(s.statements, <<>>, beginScope(r))
            IN RResult([s EXCEPT !.statements = b.node], endScope(b.r))
      [] s.type = "Function" ->
            resolveFunction(s, "FUNCTION",
                            define(declare(r, s.name.lexeme), s.name.lexeme))
      [] s.type \in {"Expression", "Print"} ->
            LET x == resolveExpr(s.expression, r)
            IN RResult([s EXCEPT !.expression = x.node], x.r)
      [] s.type = "Return" ->
            LET r1 == IF r.currentFunction = "NONE"
                      THEN error(r, "Can't return from top-level code.")
                      ELSE IF s.expression # None
                              /\ r.currentFunction = "INITIALIZER"
                      THEN error(r, "Can't return a value from an initializer.")
                      ELSE r
                x == resolveExpr(s.expression, r1)
            IN RResult([s EXCEPT !.expression = x.node], x.r)
      [] s.type = "VarStmt" ->
            LET x == resolveExpr(s.initializer, declare(r, s.name.lexeme))
            IN RResult([s EXCEPT !.initializer = x.node],
                       define(x.r, s.name.lexeme))
      [] s.type = "While" ->
            LET c == resolveExpr(s.condition, r)
                b == resolveStmt(s.body, c.r)
            IN RResult([s EXCEPT !.condition = c.node, !.body = b.node], b.r)
      [] s.type = "If" ->
            LET c == resolveExpr(s.condition, r)
                t == resolveStmt(s.thenBranch, c.r)
                f == IF s.elseBranch # None THEN resolveStmt(s.elseBranch, t.r)
                     ELSE RResult(None, t.r)
            IN RResult([s EXCEPT !.condition = c.node, !.thenBranch = t.node,
                                 !.elseBranch = f.node], f.r)
      [] s.type = "Class" -> resolveClassStmt(s, r)

\* Resolver::resolve(StmtList) / resolve(Program)
resolveStmts(ss, done, r) ==
    IF ss = <<>> \/ r.crashed THEN RResult(done \o ss, r)
    ELSE LET x == resolveStmt(Head(ss), r)
         IN resolveStmts(Tail(ss), Append(done, x.node), x.r)

\* Resolver::resolve(Program) on a fresh Resolver
resolve(prog) == resolveStmts(prog, <<>>, NewResolver)

(* ------------------------- runtime objects ---------------------------- *)
\* LoxObject = std::variant<LoxNil, LoxString, LoxNumber, LoxBoolean,
\*                          LoxCallablePtr, LoxInstancePtr>.
\* Pointers are indices into the heaps funs, classes and instances; index 0
\* is the null pointer.  Numbers are modelled by integers.
LoxNil == [k |-> "nil"]
LoxString(s) == [k |-> "string", s |-> s]
LoxNumber(n) == [k |-> "number", n |-> n]
LoxBoolean(b) == [k |-> "boolean", b |-> b]
FunctionValue(id) == [k |-> "callable", c |-> "function", id |-> id]
ClassValue(id) == [k |-> "callable", c |-> "class", id |-> id]
NativeValue == [k |-> "callable", c |-> "native", id |-> 1]
InstanceValue(id) == [k |-> "instance", id |-> id]

\* StmtResult: Nothing, or Return holding a reference to the returned value
Nothing == [type |-> "Nothing"]
Return(value) == [type |-> "Return", value |-> value]

MAX_CALL_DEPTH == 100

\* isTruthy, LoxObject.cpp
isTruthy(object) ==
    IF object.k = "nil" THEN FALSE
    ELSE IF object.k = "boolean" THEN object.b
    ELSE TRUE

(* --------------------------- the machine ------------------------------ *)
\* The interpreter is a recursive visitor.  Its native call stack is kont,
\* a sequence of frames (the last one is the innermost), and ctrl is what
\* the innermost activation is doing: evaluating a node ("eval"), receiving
\* the LoxObject of a sub-expression ("val") or the StmtResult of a
\* sub-statement ("res"), unwinding a runtime_error ("throw"), finished
\* ("done"), or behaving in a way the language does not define
\* ("undefined": null pointer dereferenced, dangling reference read, native
\* stack exhausted).  Handlers are functions from machine to machine.
Machine ==
    [environment |-> environment, envs |-> envs, funs |-> funs,
     classes |-> classes, instances |-> instances,
     function_depth |-> function_depth, kont |-> kont, ctrl |-> ctrl,
     output |-> output]

Becomes(m) ==
    /\ environment' = m.environment
    /\ envs' = m.envs
    /\ funs' = m.funs
    /\ classes' = m.classes
    /\ instances' = m.instances
    /\ function_depth' = m.function_depth
    /\ kont' = m.kont
    /\ ctrl' = m.ctrl
    /\ output' = m.output

Top(m) == m.kont[Len(m.kont)]
push(m, frame) == [m EXCEPT !.kont = Append(@, frame)]
pop(m) == [m EXCEPT !.kont = SubSeq(@, 1, Len(@) - 1)]
setTop(m, frame) == [m EXCEPT !.kont[Len(m.kont)] = frame]
eval(m, node) == [m EXCEPT !.ctrl = [tag |-> "eval", node |-> node]]
value(m, v) == [m EXCEPT !.ctrl = [tag |-> "val", v |-> v]]
result(m, r) == [m EXCEPT !.ctrl = [tag |-> "res", r |-> r]]
throw(m, message) == [m EXCEPT !.ctrl = [tag |-> "throw", msg |-> message]]
undefined(m, why) == [m EXCEPT !.ctrl = [tag |-> "undefined", why |-> why]]

AtNode(m, type) == m.ctrl.tag = "eval" /\ m.ctrl.node.type = type
Returned(m, f) ==
    m.ctrl.tag \in {"val", "res"} /\ m.kont # <<>> /\ Top(m).f = f

(* --------------------------- Environment ------------------------------ *)
\* An Environment is [values, enclosing]; enclosing = 0 is nullptr.
Environment(enclosing) == [values |-> EmptyMap, enclosing |-> enclosing]

\* std::make_shared<Environment>(enclosing): the new object's index is
\* Len(m.envs) + 1
newEnvironment(m, enclosing) ==
    [m EXCEPT !.envs = Append(@, Environment(enclosing))]

\* Environment::define
envDefine(m, env, name, v) ==
    [m EXCEPT !.envs[env].values = put(@, name, v)]

RECURSIVE ancestor(_, _, _)
\* Environment::ancestor: follows `distance` enclosing links without looking
\* at them; 0 is returned when the walk reaches nullptr
ancestor(es, env, distance) ==
    IF env = 0 THEN 0
    ELSE IF distance = 0 THEN env
    ELSE ancestor(es, es[env].enclosing, distance - 1)

RECURSIVE lookup(_, _, _)
\* the walk of Environment::get and Environment::assign: the nearest
\* environment on the chain whose values contain name, 0 if there is none
lookup(es, env, name) ==
    IF env = 0 THEN 0
    ELSE IF name \in DOMAIN es[env].values THEN env
    ELSE lookup(es, es[env].enclosing, name)

\* Environment::get: the value of the nearest binding of name on the chain.
\* Answers [m, v, status]: "ok", or "throw" (Undefined variable) when the
\* chain ends without a binding.
get(m, env, name) ==
    LET a == lookup(m.envs, env, name) IN
    IF a # 0
    THEN [m |-> m, v |-> m.envs[a].values[name], status |-> "ok"]
    ELSE [m |-> m, v |-> LoxNil, status |-> "throw"]

\* Environment::getAt: values[name] default-constructs a LoxObject (nil)
\* when the name is missing.  Answers [m, v, ok]; ~ok when the ancestor is
\* nullptr.  A distance of -1 converted to unsigned long walks off any chain.
getAt(m, env, distance, name) ==
    LET a == IF distance < 0 THEN 0 ELSE ancestor(m.envs, env, distance) IN
    IF a = 0 THEN [m |-> m, v |-> LoxNil, ok |-> FALSE]
    ELSE IF name \in DOMAIN m.envs[a].values
    THEN [m |-> m, v |-> m.envs[a].values[name], ok |-> TRUE]
    ELSE [m |-> envDefine(m, a, name, LoxNil), v |-> LoxNil, ok |-> TRUE]

\* Environment::assignAt
assignAt(m, env, distance, name, v) ==
    LET a == IF distance < 0 THEN 0 ELSE ancestor(m.envs, env, distance) IN
    IF a = 0 THEN undefined(m, "null environment")
    ELSE envDefine(m, a, name, v)

Globals == 1

\* to_string, LoxObject.cpp: the text returned, and what the string case
\* itself writes to standard output on the way ("s:" + s + "\n", then s)
to_string(m, object) ==
    CASE object.k = "nil" -> [text |-> "nil", echo |-> <<>>]
      [] object.k = "string" ->
            [text |-> object.s, echo |-> <<"s:" \o object.s \o "\n", object.s>>]
      [] object.k = "number" -> [text |-> ToString(object.n), echo |-> <<>>]
      [] object.k = "boolean" ->
            [text |-> IF object.b THEN "true" ELSE "false", echo |-> <<>>]
      [] object.k = "callable" ->
            [text |-> "<fn " \o (CASE object.c = "function" ->
                                        m.funs[object.id].declaration.name.lexeme
                                   [] object.c = "class" ->
                                        m.classes[object.id].name
                                   [] object.c = "native" -> "clock") \o ">",
             echo |-> <<>>]
      [] object.k = "instance" ->
            [text |-> IF object.id # 0
                      THEN "<" \o m.classes[m.instances[object.id].klass].name
                               \o " instance>"
                      ELSE "<null instance>",
             echo |-> <<>>]

(* ----------------------- statement handlers --------------------------- *)
\* Interpreter::operator()(ExpressionStmtPtr)
visitExpressionStmt(m) ==
    IF m.ctrl.tag = "eval"
    THEN eval(push(m, [f |-> "Expression"]), m.ctrl.node.expression)
    ELSE result(pop(m), Nothing)

\* Interpreter::operator()(PrintStmtPtr)
visitPrintStmt(m) ==
    IF m.ctrl.tag = "eval"
    THEN eval(push(m, [f |-> "Print"]), m.ctrl.node.expression)
    ELSE LET t == to_string(m, m.ctrl.v) IN
         result(pop([m EXCEPT !.output = @ \o t.echo \o <<t.text \o "\n">>]),
                Nothing)

\* Interpreter::operator()(VarStmtPtr)
visitVarStmt(m) ==
    IF m.ctrl.tag = "eval"
    THEN eval(push(m, [f |-> "VarStmt", node |-> m.ctrl.node]),
              m.ctrl.node.initializer)
    ELSE result(pop(envDefine(m, m.environment, Top(m).node.name.lexeme,
                              m.ctrl.v)), Nothing)

\* the constructor of LoxFunction
LoxFunction(decl, closure, isInitializer) ==
    [declaration |-> decl, closure |-> closure,
     isInitializer |-> isInitializer]

\* Interpreter::operator()(FunctionStmtPtr)
visitFunctionStmt(m) ==
    LET fn == Len(m.funs) + 1
        m1 == [m EXCEPT !.funs = Append(@, LoxFunction(m.ctrl.node,
                                                       m.environment, FALSE))]
    IN result(envDefine(m1, m.environment, m.ctrl.node.name.lexeme,
                        FunctionValue(fn)), Nothing)

\* Interpreter::operator()(IfStmtPtr): the branch's result is passed on
visitIfStmt(m) ==
    IF m.ctrl.tag = "eval"
    THEN eval(push(m, [f |-> "If", node |-> m.ctrl.node]),
              m.ctrl.node.condition)
    ELSE LET ifStmt == Top(m).node IN
         IF isTruthy(m.ctrl.v) THEN eval(pop(m), ifStmt.thenBranch)
         ELSE IF ifStmt.elseBranch # None THEN eval(pop(m), ifStmt.elseBranch)
         ELSE result(pop(m), Nothing)

\* Interpreter::operator()(ReturnStmtPtr): Return refers to the local
\* `value`, which dies when the handler returns
visitReturnStmt(m) ==
    IF m.ctrl.tag = "eval"
    THEN IF m.ctrl.node.expression # None
         THEN eval(push(m, [f |-> "Return"]), m.ctrl.node.expression)
         ELSE result(m, Return(LoxNil))
    ELSE result(pop(m), Return(m.ctrl.v))

\* Interpreter::operator()(WhileStmtPtr)
visitWhileStmt(m) ==
    IF m.ctrl.tag = "eval"
    THEN eval(push(m, [f |-> "While", node |-> m.ctrl.node]),
              m.ctrl.node.condition)
    ELSE IF m.ctrl.tag = "val"
    THEN IF isTruthy(m.ctrl.v) THEN eval(m, Top(m).node.body)
         ELSE result(pop(m), Nothing)
    ELSE IF m.ctrl.r.type = "Return" THEN result(pop(m), m.ctrl.r)
         ELSE eval(m, Top(m).node.condition)

\* entry of Interpreter::executeBlock: previous = environment;
\* environment = newenvironment; then the loop starts
enterBlock(m, statements, newenvironment) ==
    result([push(m, [f |-> "executeBlock", statements |-> statements,
                     i |-> 0, previous |-> m.environment,
                     newenvironment |-> newenvironment])
            EXCEPT !.environment = newenvironment], Nothing)

\* the loop of Interpreter::executeBlock, entered with the result of the
\* statement just executed.  previous is restored on Return and after the
\* last statement, not when an exception passes through.
executeBlock(m) ==
    LET fr == Top(m) IN
    IF m.ctrl.r.type = "Return"
    THEN result(pop([m EXCEPT !.environment = fr.previous]), m.ctrl.r)
    ELSE IF fr.i < Len(fr.statements)
    THEN eval(setTop(m, [fr EXCEPT !.i = @ + 1]), fr.statements[fr.i + 1])
    ELSE result(pop([m EXCEPT !.environment = fr.previous]), Nothing)

\* Interpreter::operator()(BlockStmtPtr)
visitBlockStmt(m) ==
    enterBlock(newEnvironment(m, m.environment), m.ctrl.node.statements,
               Len(m.envs) + 1)

\* a faulty lookUpVariable that looks an unresolved name up along the chain
\* of the current environment; the property C24_MissingGlobalIsAnError has
\* to reject it
lookUpVariableAlongChain(m, expr) ==
    LET a == lookup(m.envs, m.environment, expr.name.lexeme) IN
    IF a # 0
    THEN [m |-> m, v |-> m.envs[a].values[expr.name.lexeme], status |-> "ok"]
    ELSE [m |-> m, v |-> LoxNil, status |-> "throw"]

\* Interpreter::lookUpVariable with Environment::get for the globals.
\* Answers [m, v, status]: "ok", "throw" (Undefined variable) or "undefined"
\* (getAt through a null environment).
lookUpVariable(m, expr) ==
    IF expr.distance = -1
    THEN get(m, Globals, expr.name.lexeme)
    ELSE LET g == getAt(m, m.environment, expr.distance, expr.name.lexeme) IN
         [m |-> g.m, v |-> g.v,
          status |-> IF g.ok THEN "ok" ELSE "undefined"]

UndefinedVariable(name) == "Undefined variable '" \o name \o "'."

RECURSIVE findMethodSuperFirst(_, _, _)
\* a faulty findMethod that prefers the method of the superclass; the
\* property C23_GetFindsFieldThenMethod has to reject it
findMethodSuperFirst(cls, klass, method_name) ==
    LET inherited == IF cls[klass].superClass # 0
                     THEN findMethodSuperFirst(cls, cls[klass].superClass,
                                               method_name)
                     ELSE 0
    IN IF inherited # 0 THEN inherited
       ELSE IF method_name \in DOMAIN cls[klass].methods
       THEN cls[klass].methods[method_name]
       ELSE 0

RECURSIVE findMethod(_, _, _)
\* LoxClass::findMethod: the LoxFunction index, 0 for nullptr
findMethod(cls, klass, method_name) ==
    IF method_name \in DOMAIN cls[klass].methods
    THEN cls[klass].methods[method_name]
    ELSE IF cls[klass].superClass # 0
    THEN findMethod(cls, cls[klass].superClass, method_name)
    ELSE 0

\* LoxFunction::bind: the bound function is funs[Len(m.funs) + 1] afterwards
bind(m, fn, instance) ==
    LET env == Len(m.envs) + 1
        m1 == envDefine(newEnvironment(m, m.funs[fn].closure), env, "this",
                        instance)
    IN [m1 EXCEPT !.funs = Append(@, LoxFunction(m.funs[fn].declaration, env,
                                                 m.funs[fn].isInitializer))]

\* the method table built by the ClassStmt handler: a later method of the
\* same name replaces an earlier one
methodTable(methods, base) ==
    [n \in {methods[i].name.lexeme : i \in 1..Len(methods)} |->
        base + CHOOSE i \in 1..Len(methods) :
                  /\ methods[i].name.lexeme = n
                  /\ \A j \in 1..Len(methods) :
                        methods[j].name.lexeme = n => j <= i]

\* a faulty leaveSuper that leaves the environment holding `super` current;
\* the frame property C21_EnvironmentRestored has to reject it
leaveSuperKept(m, has) == m

\* `if (super_class.has_value()) { environment = environment->get_enclosing(); }`
\* of the ClassStmt handler
leaveSuper(m, has) ==
    IF has THEN [m EXCEPT !.environment = m.envs[m.environment].enclosing]
    ELSE m

\* Interpreter::operator()(ClassStmtPtr)
visitClassStmt(m) ==
    LET classStmt == m.ctrl.node
        has == classStmt.super_class # None
        s == IF has THEN lookUpVariable(m, classStmt.super_class)
             ELSE [m |-> m, v |-> LoxNil, status |-> "ok"]
    IN
    IF s.status = "throw"
    THEN throw(m, UndefinedVariable(classStmt.super_class.name.lexeme))
    ELSE IF s.status = "undefined" THEN undefined(m, "null environment")
    ELSE IF has /\ ~(s.v.k = "callable" /\ s.v.c = "class")
    THEN throw(s.m, "Superclass must be a class.")
    ELSE
    LET super_class == IF has THEN s.v.id ELSE 0
        m1 == envDefine(s.m, s.m.environment, classStmt.name.lexeme, LoxNil)
        menv == IF has THEN Len(m1.envs) + 1 ELSE m1.environment
        m2 == IF has
              THEN [envDefine(newEnvironment(m1, m1.environment), menv,
                              "super", ClassValue(super_class))
                    EXCEPT !.environment = menv]
              ELSE m1
        base == Len(m2.funs)
        m3 == [m2 EXCEPT !.funs = @ \o
                 [i \in 1..Len(classStmt.methods) |->
                    LoxFunction(classStmt.methods[i], menv,
                                classStmt.methods[i].ftype = "INITIALIZER")]]
        klass == Len(m3.classes) + 1
        unfinished == [name |-> classStmt.name.lexeme,
                       superClass |-> super_class,
                       methods |-> methodTable(classStmt.methods, base),
                       initializer |-> 0]
        cls == Append(m3.classes, unfinished)
        m4 == [m3 EXCEPT !.classes =
                 [cls EXCEPT ![klass].initializer =
                                 findMethod(cls, klass, "init")]]
        m5 == leaveSuper(m4, has)
        target == lookup(m5.envs, m5.environment, classStmt.name.lexeme)
    IN result(envDefine(m5, target, classStmt.name.lexeme, ClassValue(klass)),
              Nothing)

(* ----------------------- expression handlers -------------------------- *)
\* Interpreter::operator()(LiteralExprPtr)
visitLiteralExpr(m) ==
    LET lit == m.ctrl.node.value IN
    value(m, CASE lit.kind = "bool" -> LoxBoolean(lit.b)
               [] lit.kind = "number" -> LoxNumber(lit.n)
               [] lit.kind = "string" -> LoxString(lit.s)
               [] lit.kind = "nil" -> LoxNil)

\* Interpreter::operator()(GroupingExprPtr)
visitGroupingExpr(m) == eval(m, m.ctrl.node.expression)

\* Interpreter::operator()(VarExprPtr) and (ThisExprPtr)
visitVarExpr(m) ==
    LET l == lookUpVariable(m, m.ctrl.node) IN
    CASE l.status = "ok" -> value(l.m, l.v)
      [] l.status = "throw" ->
            throw(m, UndefinedVariable(m.ctrl.node.name.lexeme))
      [] l.status = "undefined" -> undefined(m, "null environment")

\* Interpreter::operator()(AssignExprPtr); Environment::assign for globals
visitAssignExpr(m) ==
    IF m.ctrl.tag = "eval"
    THEN eval(push(m, [f |-> "Assign", node |-> m.ctrl.node]),
              m.ctrl.node.value)
    ELSE LET assignExpr == Top(m).node
             name == assignExpr.name.lexeme IN
         IF assignExpr.distance = -1
         THEN IF name \in DOMAIN m.envs[Globals].values
              THEN value(pop(envDefine(m, Globals, name, m.ctrl.v)), m.ctrl.v)
              ELSE throw(m, UndefinedVariable(name))
         ELSE LET m1 == assignAt(m, m.environment, assignExpr.distance, name,
                                 m.ctrl.v) IN
              IF m1.ctrl.tag = "undefined" THEN m1
              ELSE value(pop(m1), m.ctrl.v)

\* Interpreter::operator()(UnaryExprPtr) with checkNumberOperand
visitUnaryExpr(m) ==
    IF m.ctrl.tag = "eval"
    THEN eval(push(m, [f |-> "Unary", node |-> m.ctrl.node]),
              m.ctrl.node.expression)
    ELSE IF Top(m).node.op = "MINUS"
    THEN IF m.ctrl.v.k = "number" THEN value(pop(m), LoxNumber(-m.ctrl.v.n))
         ELSE throw(m, "Operand must be a number.")
    ELSE value(pop(m), LoxBoolean(~isTruthy(m.ctrl.v)))

\* Interpreter::operator()(LogicalExprPtr)
visitLogicalExpr(m) ==
    IF m.ctrl.tag = "eval"
    THEN eval(push(m, [f |-> "Logical", node |-> m.ctrl.node]),
              m.ctrl.node.left)
    ELSE LET logicalExpr == Top(m).node
             left == m.ctrl.v IN
         IF logicalExpr.op = "OR" /\ isTruthy(left) THEN value(pop(m), left)
         ELSE IF logicalExpr.op = "AND" /\ ~isTruthy(left)
         THEN value(pop(m), left)
         ELSE eval(pop(m), logicalExpr.right)

\* the switch of the BinaryExpr handler on two evaluated operands:
\* [ok, v] or [~ok, msg]
binaryOp(op, left, right) ==
    LET numbers == left.k = "number" /\ right.k = "number"
        bad == [ok |-> FALSE, msg |-> "Operands must be numbers."]
        good(v) == [ok |-> TRUE, v |-> v]
    IN
    CASE op = "PLUS" ->
            IF numbers THEN good(LoxNumber(left.n + right.n))
            ELSE IF left.k = "string" /\ right.k = "string"
            THEN good(LoxString(left.s \o right.s))
            ELSE [ok |-> FALSE,
                  msg |-> "Operands must be two numbers or two strings."]
      [] op = "MINUS" ->
            IF numbers THEN good(LoxNumber(left.n - right.n)) ELSE bad
      [] op = "SLASH" ->
            IF numbers
            THEN good(IF right.n # 0 /\ left.n % right.n = 0
                      THEN LoxNumber(left.n \div right.n)
                      ELSE [k |-> "number", quotient |-> <<left.n, right.n>>])
            ELSE bad
      [] op = "STAR" ->
            IF numbers THEN good(LoxNumber(left.n * right.n)) ELSE bad
      [] op = "GREATER" ->
            IF numbers THEN good(LoxBoolean(left.n > right.n)) ELSE bad
      [] op = "GREATER_EQUAL" ->
            IF numbers THEN good(LoxBoolean(left.n >= right.n)) ELSE bad
      [] op = "LESS" ->
            IF numbers THEN good(LoxBoolean(left.n < right.n)) ELSE bad
      [] op = "LESS_EQUAL" ->
            IF numbers THEN good(LoxBoolean(left.n <= right.n)) ELSE bad
      [] op = "BANG_EQUAL" -> good(LoxBoolean(left # right))
      [] op = "EQUAL_EQUAL" -> good(LoxBoolean(left = right))

\* Interpreter::operator()(BinaryExprPtr)
visitBinaryExpr(m) ==
    IF m.ctrl.tag = "eval"
    THEN eval(push(m, [f |-> "Binary", node |-> m.ctrl.node,
                       phase |-> "left", left |-> LoxNil]),
              m.ctrl.node.left)
    ELSE LET fr == Top(m) IN
         IF fr.phase = "left"
         THEN eval(setTop(m, [fr EXCEPT !.phase = "right", !.left = m.ctrl.v]),
                   fr.node.right)
         ELSE LET r == binaryOp(fr.node.op, fr.left, m.ctrl.v) IN
              IF r.ok THEN value(pop(m), r.v) ELSE throw(m, r.msg)

\* Interpreter::operator()(GetExprPtr) with LoxInstance::get
visitGetExpr(m) ==
    IF m.ctrl.tag = "eval"
    THEN eval(push(m, [f |-> "Get", node |-> m.ctrl.node]), m.ctrl.node.object)
    ELSE LET object == m.ctrl.v
             name == Top(m).node.name.lexeme IN
         IF object.k # "instance"
         THEN throw(m, "Only instances have properties.")
         ELSE IF object.id = 0 THEN undefined(m, "null instance")
         ELSE IF name \in DOMAIN m.instances[object.id].fields
         THEN value(pop(m), m.instances[object.id].fields[name])
         ELSE LET method == findMethod(m.classes, m.instances[object.id].klass,
                                       name) IN
              IF method # 0
              THEN value(pop(bind(m, method, object)),
                         FunctionValue(Len(m.funs) + 1))
              ELSE throw(m, "Undefined property '" \o name \o "'.")

\* Interpreter::operator()(SetExprPtr) with LoxInstance::set
visitSetExpr(m) ==
    IF m.ctrl.tag = "eval"
    THEN eval(push(m, [f |-> "Set", node |-> m.ctrl.node, phase |-> "object",
                       object |-> LoxNil]), m.ctrl.node.object)
    ELSE LET fr == Top(m) IN
         IF fr.phase = "object"
         THEN IF m.ctrl.v.k # "instance"
              THEN throw(m, "Only instances have fields.")
              ELSE eval(setTop(m, [fr EXCEPT !.phase = "value",
                                             !.object = m.ctrl.v]),
                        fr.node.value)
         ELSE IF fr.object.id = 0 THEN undefined(m, "null instance")
         ELSE value(pop([m EXCEPT !.instances[fr.object.id].fields =
                            put(@, fr.node.name.lexeme, m.ctrl.v)]), m.ctrl.v)

\* a faulty SuperExpr handler that starts the lookup at the superclass of the
\* receiver's class; the property C11_SuperStartsAtDeclaringClass has to
\* reject it
visitSuperExprOfReceiver(m) ==
    LET superExpr == m.ctrl.node
        t == getAt(m, m.environment, superExpr.distance - 1, "this")
        from == m.classes[m.instances[t.v.id].klass].superClass
        method == findMethod(m.classes, from, superExpr.method.lexeme)
    IN value(bind(t.m, method, t.v), FunctionValue(Len(m.funs) + 1))

\* Interpreter::operator()(SuperExprPtr).  std::get on another alternative
\* throws std::bad_variant_access, which nothing catches.
visitSuperExpr(m) ==
    LET superExpr == m.ctrl.node
        s == getAt(m, m.environment, superExpr.distance, "super")
        t == getAt(s.m, m.environment, superExpr.distance - 1, "this")
    IN
    IF ~s.ok THEN undefined(m, "null environment")
    ELSE IF ~(s.v.k = "callable" /\ s.v.c = "class")
    THEN undefined(s.m, "bad_variant_access")
    ELSE IF ~t.ok THEN undefined(s.m, "null environment")
    ELSE IF t.v.k # "instance" THEN undefined(t.m, "bad_variant_access")
    ELSE LET method == findMethod(m.classes, s.v.id, superExpr.method.lexeme) IN
         IF method = 0
         THEN throw(t.m, "Undefined property" \o superExpr.method.lexeme)
         ELSE value(bind(t.m, method, t.v), FunctionValue(Len(m.funs) + 1))

(* ------------------------------ calls --------------------------------- *)
\* LoxCallable::arity, LoxClass::arity
arity(m, callee) ==
    CASE callee.c = "function" ->
            Len(m.funs[callee.id].declaration.parameters)
      [] callee.c = "class" ->
            IF m.classes[callee.id].initializer = 0 THEN 0
            ELSE Len(m.funs[m.classes[callee.id].initializer]
                        .declaration.parameters)
      [] callee.c = "native" -> 0

\* the values of a call's environment: a later parameter of the same name
\* overwrites an earlier one
parameterValues(params, arguments) ==
    [n \in {params[i].lexeme : i \in 1..Len(params)} |->
        arguments[CHOOSE i \in 1..Len(params) :
                     /\ params[i].lexeme = n
                     /\ \A j \in 1..Len(params) : params[j].lexeme = n => j <= i]]

\* LoxFunction::operator() up to the call of executeBlock
callFunction(m, fn, arguments) ==
    LET env == Len(m.envs) + 1
        decl == m.funs[fn].declaration
        m1 == newEnvironment(m, m.funs[fn].closure)
        m2 == [m1 EXCEPT !.envs[env].values =
                            parameterValues(decl.parameters, arguments)]
    IN enterBlock(push(m2, [f |-> "LoxFunction", fn |-> fn]), decl.body, env)

\* what std::move leaves behind in the LoxObject it moved from
movedFrom(v) == IF v.k = "instance" THEN InstanceValue(0) ELSE v

\* a faulty returnFromFunction that treats an initializer like any other
\* function; the initializer property C10_ClassCallReturnsInstance has to
\* reject it
returnFromFunctionPlain(m, intact) ==
    IF m.ctrl.r.type = "Return"
    THEN IF intact THEN value(pop(m), m.ctrl.r.value)
         ELSE undefined(m, "dangling reference")
    ELSE value(pop(m), LoxNil)

\* LoxFunction::operator() after executeBlock has returned.  An initializer
\* moves the instance out of its closure's `this`.  Any other function that
\* got a Return reads the LoxObject the Return refers to, a local of the
\* ReturnStmt handler that no longer exists: intact tells whether the read
\* still finds the value.
returnFromFunction(m, intact) ==
    LET fn == m.funs[Top(m).fn]
        g == getAt(m, fn.closure, 0, "this")
    IN
    IF fn.isInitializer
    THEN value(pop(envDefine(g.m, fn.closure, "this", movedFrom(g.v))), g.v)
    ELSE IF m.ctrl.r.type = "Return"
    THEN IF intact THEN value(pop(m), m.ctrl.r.value)
         ELSE undefined(m, "dangling reference")
    ELSE value(pop(m), LoxNil)

\* LoxClass::operator() up to the call of the initializer
callClass(m, klass, arguments) ==
    LET instance == Len(m.instances) + 1
        m1 == [m EXCEPT !.instances =
                 Append(@, [klass |-> klass, fields |-> EmptyMap])]
        initializer == m.classes[klass].initializer
    IN
    IF initializer # 0
    THEN callFunction(push(bind(m1, initializer, InstanceValue(instance)),
                           [f |-> "LoxClass", instance |-> instance]),
                      Len(m1.funs) + 1, arguments)
    ELSE value(m1, InstanceValue(instance))

\* LoxClass::operator() after the initializer: its result is dropped
returnFromClass(m) == value(pop(m), InstanceValue(Top(m).instance))

\* the tail of the CallExpr handler, callee and arguments evaluated
\* a faulty tail of the CallExpr handler that counts the call before it
\* compares the number of arguments with the arity; the property
\* C18_ArityMismatchStopsCall has to reject it
invokeCountsFirst(m, clock) ==
    LET fr == Top(m)
        m1 == [m EXCEPT !.function_depth = @ + 1]
    IN IF fr.callee.k = "callable" /\ Len(fr.args) # arity(m, fr.callee)
       THEN throw(m1, "Expected {} arguments but got {}.")
       ELSE throw(m, "Can only call functions and classes.")

invoke(m, clock) ==
    LET fr == Top(m)
        callee == fr.callee
        m1 == setTop([m EXCEPT !.function_depth = @ + 1],
                     [fr EXCEPT !.phase = "call"])
    IN
    IF callee.k # "callable"
    THEN throw(m, "Can only call functions and classes.")
    ELSE IF Len(fr.args) # arity(m, callee)
    THEN throw(m, "Expected {} arguments but got {}."
                    \o ToString(arity(m, callee)) \o ToString(Len(fr.args)))
    ELSE IF Len(m.kont) >= HostStackFrames
    THEN undefined(m, "native stack exhausted")
    ELSE CASE callee.c = "native" -> value(m1, LoxNumber(clock))
           [] callee.c = "function" -> callFunction(m1, callee.id, fr.args)
           [] callee.c = "class" -> callClass(m1, callee.id, fr.args)

\* a faulty exceedsCallDepth that never stops a call; the termination
\* property C6_SelfRecursionEnds has to reject it
neverExceedsCallDepth(m) == FALSE

\* the test that opens the CallExpr handler:
\*   if (function_depth > MAX_CALL_DEPTH)
exceedsCallDepth(m) == m.function_depth > MAX_CALL_DEPTH

\* Interpreter::operator()(CallExprPtr)
visitCallExpr(m, clock) ==
    IF m.ctrl.tag = "eval"
    THEN IF exceedsCallDepth(m)
         THEN throw(m, "Stack overflow.")
         ELSE eval(push(m, [f |-> "Call", node |-> m.ctrl.node,
                            phase |-> "callee", callee |-> LoxNil,
                            args |-> <<>>]), m.ctrl.node.callee)
    ELSE LET fr == Top(m) IN
         CASE fr.phase = "callee" ->
                LET m1 == setTop(m, [fr EXCEPT !.callee = m.ctrl.v,
                                               !.phase = "args"]) IN
                IF fr.node.arguments = <<>> THEN invoke(m1, clock)
                ELSE eval(m1, fr.node.arguments[1])
           [] fr.phase = "args" ->
                LET args == Append(fr.args, m.ctrl.v)
                    m1 == setTop(m, [fr EXCEPT !.args = args]) IN
                IF Len(args) < Len(fr.node.arguments)
                THEN eval(m1, fr.node.arguments[Len(args) + 1])
                ELSE invoke(m1, clock)
           [] fr.phase = "call" ->
                value(pop([m EXCEPT !.function_depth = @ - 1]), m.ctrl.v)

(* ----------------------- interpreter actions -------------------------- *)
\* the handler of nodes of `type`, whose frames are marked f, has the floor
On(type, f) ==
    /\ pc = "interpret"
    /\ IF ctrl.tag = "eval" THEN ctrl.node.type = type
       ELSE ctrl.tag \in {"val", "res"} /\ kont # <<>> /\ Top(Machine).f = f

Step(m) ==
    /\ Becomes(m)
    /\ UNCHANGED <<pc, exitCode, scanVars, flagVars, parseVars>>

EvalExpressionStmt == On("Expression", "Expression") /\ Step(visitExpressionStmt(Machine))
EvalPrintStmt == On("Print", "Print") /\ Step(visitPrintStmt(Machine))
EvalVarStmt == On("VarStmt", "VarStmt") /\ Step(visitVarStmt(Machine))
EvalFunctionStmt == On("Function", "-") /\ Step(visitFunctionStmt(Machine))
EvalIfStmt == On("If", "If") /\ Step(visitIfStmt(Machine))
EvalReturnStmt == On("Return", "Return") /\ Step(visitReturnStmt(Machine))
EvalWhileStmt == On("While", "While") /\ Step(visitWhileStmt(Machine))
EvalBlockStmt == On("Block", "-") /\ Step(visitBlockStmt(Machine))
EvalClassStmt == On("Class", "-") /\ Step(visitClassStmt(Machine))
ExecuteBlock == On("-", "executeBlock") /\ Step(executeBlock(Machine))
EvalLiteralExpr == On("Literal", "-") /\ Step(visitLiteralExpr(Machine))
EvalGroupingExpr == On("Grouping", "-") /\ Step(visitGroupingExpr(Machine))
EvalVarExpr == On("Var", "-") /\ Step(visitVarExpr(Machine))
EvalThisExpr == On("This", "-") /\ Step(visitVarExpr(Machine))
EvalAssignExpr == On("Assign", "Assign") /\ Step(visitAssignExpr(Machine))
EvalUnaryExpr == On("Unary", "Unary") /\ Step(visitUnaryExpr(Machine))
EvalLogicalExpr == On("Logical", "Logical") /\ Step(visitLogicalExpr(Machine))
EvalBinaryExpr == On("Binary", "Binary") /\ Step(visitBinaryExpr(Machine))
EvalGetExpr == On("Get", "Get") /\ Step(visitGetExpr(Machine))
EvalSetExpr == On("Set", "Set") /\ Step(visitSetExpr(Machine))
EvalSuperExpr == On("Super", "-") /\ Step(visitSuperExpr(Machine))
ReturnFromClass == On("-", "LoxClass") /\ Step(returnFromClass(Machine))

\* the clock native answers the seconds since the epoch
ClockValues == {0, 1}

EvalCallExpr ==
    /\ On("Call", "Call")
    /\ \E clock \in ClockValues : Step(visitCallExpr(Machine, clock))

ReturnFromFunction ==
    /\ On("-", "LoxFunction")
    /\ \E intact \in BOOLEAN : Step(returnFromFunction(Machine, intact))

\* the loop of Interpreter::evaluate(Program): the results of the top-level
\* statements are dropped
EvaluateProgram ==
    /\ pc = "interpret"
    /\ ctrl.tag = "res"
    /\ kont # <<>>
    /\ Top(Machine).f = "Program"
    /\ LET i == Top(Machine).i IN
       IF i < Len(program)
       THEN /\ Becomes(eval(setTop(Machine, [f |-> "Program", i |-> i + 1]),
                            program[i + 1]))
            /\ pc' = pc
       ELSE /\ Becomes([Machine EXCEPT !.kont = <<>>,
                           !.ctrl = [tag |-> "done", error |-> ""]])
            /\ pc' = "interpreted"
    /\ UNCHANGED <<exitCode, scanVars, flagVars, parseVars>>

\* the catch clause of Interpreter::evaluate(Program): runtimeError() sets
\* the hadRuntimeError of Interpreter.cpp.  Unwinding restores neither
\* environment nor function_depth.
CatchRuntimeError ==
    /\ pc = "interpret"
    /\ ctrl.tag = "throw"
    /\ hadRuntimeError' = runtimeError(hadRuntimeError, "Interpreter")
    /\ Becomes([Machine EXCEPT !.kont = <<>>,
                  !.ctrl = [tag |-> "done", error |-> ctrl.msg]])
    /\ pc' = "interpreted"
    /\ UNCHANGED <<exitCode, scanVars, hadError, parseVars>>

\* the members of a fresh Interpreter, evaluate(Program) just entered
NewInterpreter ==
    [environment |-> Globals,
     envs |-> <<[values |-> put(EmptyMap, "clock", NativeValue),
                 enclosing |-> 0]>>,
     funs |-> <<>>, classes |-> <<>>, instances |-> <<>>,
     function_depth |-> 0,
     kont |-> <<[f |-> "Program", i |-> 0]>>,
     ctrl |-> [tag |-> "res", r |-> Nothing],
     output |-> <<>>]

\* no Interpreter exists yet
NoInterpreter ==
    [environment |-> 0, envs |-> <<>>, funs |-> <<>>, classes |-> <<>>,
     instances |-> <<>>, function_depth |-> 0, kont |-> <<>>,
     ctrl |-> [tag |-> "idle"], output |-> <<>>]

InitMachine(m) ==
    /\ environment = m.environment
    /\ envs = m.envs
    /\ funs = m.funs
    /\ classes = m.classes
    /\ instances = m.instances
    /\ function_depth = m.function_depth
    /\ kont = m.kont
    /\ ctrl = m.ctrl
    /\ output = m.output

(* ------------------------------ main() -------------------------------- *)
\* main() tests the hadError / hadRuntimeError of main.cpp
EX_DATAERR == 65
EX_SOFTWARE == 70
EX_OK == 0

\* main.cpp: if (hadError) { return 65; } after Parser.parse()
AfterParse ==
    /\ pc = "parsed"
    /\ IF hadError["main"]
       THEN pc' = "exit" /\ exitCode' = <<EX_DATAERR>>
       ELSE pc' = "resolve" /\ exitCode' = exitCode
    /\ UNCHANGED <<scanVars, flagVars, parseVars, interpVars>>

\* main.cpp: resolver.resolve(ast) on a fresh Resolver
Resolve ==
    /\ pc = "resolve"
    /\ LET res == resolve(program) IN
       /\ program' = res.node
       /\ hadError' = IF res.r.err THEN report(hadError, "Resolver")
                      ELSE hadError
       /\ pc' = IF res.r.crashed THEN "undefined" ELSE "resolved"
    /\ UNCHANGED <<exitCode, scanVars, hadRuntimeError, pcurrent, interpVars>>

\* main.cpp: if (hadError) { return 65; } after the resolver, then
\* Interpreter Interpreter; Interpreter.evaluate(ast);
AfterResolve ==
    /\ pc = "resolved"
    /\ IF hadError["main"]
       THEN pc' = "exit" /\ exitCode' = <<EX_DATAERR>> /\ UNCHANGED interpVars
       ELSE pc' = "interpret" /\ exitCode' = exitCode /\ Becomes(NewInterpreter)
    /\ UNCHANGED <<scanVars, flagVars, parseVars>>

\* main.cpp: if (hadRuntimeError) { return 70; } return 0;
AfterEvaluate ==
    /\ pc = "interpreted"
    /\ pc' = "exit"
    /\ exitCode' = IF hadRuntimeError["main"] THEN <<EX_SOFTWARE>> ELSE <<EX_OK>>
    /\ UNCHANGED <<scanVars, flagVars, parseVars, interpVars>>

(* -------------------- programs given to the interpreter --------------- *)
\* Syntax trees as Parser's functions build them, written with the grammar's
\* constructors; resolve() annotates them before Interpreter::evaluate.
Id(n) == Token("IDENTIFIER", n, LitString(""), 1)
Kw(type, lexeme) == Token(type, lexeme, LitString(""), 1)
Num(n) == LiteralExpr(LitNumber(n))
Str(x) == LiteralExpr(LitString(x))
Var(n) == VarExpr(Id(n))
This == ThisExpr(Kw("THIS", "this"))
Call(callee, args) == CallExpr(callee, Kw("RIGHT_PAREN", ")"), args)
Bin(l, type, lexeme, r) == BinaryExpr(l, Kw(type, lexeme), r)
Fun(n, params, body) ==
    FunctionStmt(Id(n), "FUNCTION", [i \in 1..Len(params) |-> Id(params[i])],
                 body)
Method(n, params, body) ==
    FunctionStmt(Id(n), IF n = "init" THEN "INITIALIZER" ELSE "METHOD",
                 [i \in 1..Len(params) |-> Id(params[i])], body)
Do(e) == ExpressionStmt(e)
Ret(e) == ReturnStmt(Kw("RETURN", "return"), e)

\* fun makeCounter() { var i = 0; fun count() { i = i + 1; print i; }
\*                     return count; }
\* var c = makeCounter(); var d = makeCounter(); c(); ... c(); d();
ProgCounter ==
    <<Fun("makeCounter", <<>>,
          <<VarStmt(Id("i"), Num(0)),
            Fun("count", <<>>,
                <<Do(AssignExpr(Id("i"), Bin(Var("i"), "PLUS", "+", Num(1)))),
                  PrintStmt(Var("i"))>>),
            Ret(Var("count"))>>),
      VarStmt(Id("c"), Call(Var("makeCounter"), <<>>)),
      VarStmt(Id("d"), Call(Var("makeCounter"), <<>>))>>
    \o [k \in 1..MaxCounterCalls |-> Do(Call(Var("c"), <<>>))]
    \o <<Do(Call(Var("d"), <<>>))>>

\* fun f() { f(); } f();
ProgRecurse ==
    <<Fun("f", <<>>, <<Do(Call(Var("f"), <<>>))>>),
      Do(Call(Var("f"), <<>>))>>

\* class A { m() { this.m(); } } A().m();
ProgMethodRecurse ==
    <<ClassStmt(Id("A"), None,
                <<Method("m", <<>>,
                         <<Do(Call(GetExpr(This, Id("m")), <<>>))>>)>>),
      Do(Call(GetExpr(Call(Var("A"), <<>>), Id("m")), <<>>))>>

\* class A { init() { A(); } } A();
ProgInitRecurse ==
    <<ClassStmt(Id("A"), None,
                <<Method("init", <<>>, <<Do(Call(Var("A"), <<>>))>>)>>),
      Do(Call(Var("A"), <<>>))>>

\* class C { init(x) { this.x = x; return; } }
\* var o = C(1); print o.x; print o.init(2) == o; print o.x;
ProgInit ==
    <<ClassStmt(Id("C"), None,
                <<Method("init", <<"x">>,
                         <<Do(SetExpr(This, Id("x"), Var("x"))), Ret(None)>>)>>),
      VarStmt(Id("o"), Call(Var("C"), <<Num(1)>>)),
      PrintStmt(GetExpr(Var("o"), Id("x"))),
      PrintStmt(Bin(Call(GetExpr(Var("o"), Id("init")), <<Num(2)>>),
                    "EQUAL_EQUAL", "==", Var("o"))),
      PrintStmt(GetExpr(Var("o"), Id("x")))>>

\* class B { init() { this.v = 1; } } class C < B {}
\* var o = C(); print o.v; print o.init() == o;
ProgInherit ==
    <<ClassStmt(Id("B"), None,
                <<Method("init", <<>>,
                         <<Do(SetExpr(This, Id("v"), Num(1)))>>)>>),
      ClassStmt(Id("C"), Var("B"), <<>>),
      VarStmt(Id("o"), Call(Var("C"), <<>>)),
      PrintStmt(GetExpr(Var("o"), Id("v"))),
      PrintStmt(Bin(Call(GetExpr(Var("o"), Id("init")), <<>>),
                    "EQUAL_EQUAL", "==", Var("o")))>>

\* class A { m() { print 1; } } class B < A { m() { super.m(); print 2; } }
\* B().m();
ProgSuper ==
    <<ClassStmt(Id("A"), None, <<Method("m", <<>>, <<PrintStmt(Num(1))>>)>>),
      ClassStmt(Id("B"), Var("A"),
                <<Method("m", <<>>,
                         <<Do(Call(SuperExpr(Kw("SUPER", "super"), Id("m")),
                                   <<>>)),
                           PrintStmt(Num(2))>>)>>),
      Do(Call(GetExpr(Call(Var("B"), <<>>), Id("m")), <<>>))>>

\* { var a = (a = 1); print a; }
ProgOwnInitializer ==
    <<BlockStmt(<<VarStmt(Id("a"), GroupingExpr(AssignExpr(Id("a"), Num(1)))),
                  PrintStmt(Var("a"))>>)>>

\* { var a = 1; { var b = a; a = b + 1; print a; }
\*   if (a > 1 and true) print -a; else print !a;
\*   while (a < 4) a = a + 1; print a; }
ProgLocals ==
    <<BlockStmt(
        <<VarStmt(Id("a"), Num(1)),
          BlockStmt(<<VarStmt(Id("b"), Var("a")),
                      Do(AssignExpr(Id("a"),
                                    Bin(Var("b"), "PLUS", "+", Num(1)))),
                      PrintStmt(Var("a"))>>),
          IfStmt(LogicalExpr(Bin(Var("a"), "GREATER", ">", Num(1)), "AND",
                             LiteralExpr(LitBool(TRUE))),
                 PrintStmt(UnaryExpr(Kw("MINUS", "-"), Var("a"))),
                 PrintStmt(UnaryExpr(Kw("BANG", "!"), Var("a")))),
          WhileStmt(Bin(Var("a"), "LESS", "<", Num(4)),
                    Do(AssignExpr(Id("a"), Bin(Var("a"), "PLUS", "+", Num(1))))),
          PrintStmt(Var("a"))>>)>>

\* print 1; print -nil; print 2;
ProgRuntimeError ==
    <<PrintStmt(Num(1)),
      PrintStmt(UnaryExpr(Kw("MINUS", "-"), LiteralExpr(LitNil))),
      PrintStmt(Num(2))>>

\* fun f() { return 7; } print f(); print clock() >= 0;
ProgReturn ==
    <<Fun("f", <<>>, <<Ret(Num(7))>>),
      PrintStmt(Call(Var("f"), <<>>)),
      PrintStmt(Bin(Call(Var("clock"), <<>>), "GREATER_EQUAL", ">=", Num(0)))>>

\* class A { m() { print this.v; } }
\* class B < A { m() { super.m(); print 2; } }
\* class C < B {}
\* var o = C(); o.v = 7; o.m();
ProgSuperChain ==
    <<ClassStmt(Id("A"), None,
                <<Method("m", <<>>, <<PrintStmt(GetExpr(This, Id("v")))>>)>>),
      ClassStmt(Id("B"), Var("A"),
                <<Method("m", <<>>,
                         <<Do(Call(SuperExpr(Kw("SUPER", "super"), Id("m")),
                                   <<>>)),
                           PrintStmt(Num(2))>>)>>),
      ClassStmt(Id("C"), Var("B"), <<>>),
      VarStmt(Id("o"), Call(Var("C"), <<>>)),
      Do(SetExpr(Var("o"), Id("v"), Num(7))),
      Do(Call(GetExpr(Var("o"), Id("m")), <<>>))>>

\* class A {} fun f() {} print A; print A(); print f; print clock;
\* print nil; print "hi";
ProgPrint ==
    <<ClassStmt(Id("A"), None, <<>>),
      Fun("f", <<>>, <<>>),
      PrintStmt(Var("A")),
      PrintStmt(Call(Var("A"), <<>>)),
      PrintStmt(Var("f")),
      PrintStmt(Var("clock")),
      PrintStmt(LiteralExpr(LitNil)),
      PrintStmt(Str("hi"))>>

\* the clauses and the body of
\*   for (var i = 1; i < 22; i = i + 1) { print i; i = i + 10; if (i > 30) -nil; }
ForInitializer == VarStmt(Id("i"), Num(1))
ForCondition == Bin(Var("i"), "LESS", "<", Num(22))
ForIncrement == AssignExpr(Id("i"), Bin(Var("i"), "PLUS", "+", Num(1)))
ForBody ==
    BlockStmt(<<PrintStmt(Var("i")),
                Do(AssignExpr(Id("i"), Bin(Var("i"), "PLUS", "+", Num(10)))),
                IfStmt(Bin(Var("i"), "GREATER", ">", Num(30)),
                       Do(UnaryExpr(Kw("MINUS", "-"), LiteralExpr(LitNil))),
                       None)>>)

\* var i = 0; for (...) {...} print i;  with the for statement as
\* Parser::forStatement builds it; has says which of the three clauses
\* (initializer, condition, increment) the statement has
ProgFor(has) ==
    <<VarStmt(Id("i"), Num(0)),
      desugarFor(IF has[1] THEN ForInitializer ELSE None,
                 IF has[2] THEN ForCondition ELSE None,
                 IF has[3] THEN ForIncrement ELSE None,
                 ForBody),
      PrintStmt(Var("i"))>>

ForClauses == BOOLEAN \X BOOLEAN \X BOOLEAN

\* fun f(a) { print a; }  class C { init(x) { print x; } }  class D {}
\* class E < C {}
ArityDeclarations ==
    <<Fun("f", <<"a">>, <<PrintStmt(Var("a"))>>),
      ClassStmt(Id("C"), None,
                <<Method("init", <<"x">>, <<PrintStmt(Var("x"))>>)>>),
      ClassStmt(Id("D"), None, <<>>),
      ClassStmt(Id("E"), Var("C"), <<>>)>>

\* f(); f(1, 2); C(); D(1); E(); clock(1);  each a call with a number of
\* arguments that is not the callee's arity
ArityCalls ==
    {Call(Var("f"), <<>>), Call(Var("f"), <<Num(1), Num(2)>>),
     Call(Var("C"), <<>>), Call(Var("D"), <<Num(1)>>), Call(Var("E"), <<>>),
     Call(Var("clock"), <<Num(1)>>)}

\* the declarations; print 1; one of the calls; print 2;
ProgArity(badCall) ==
    ArityDeclarations \o <<PrintStmt(Num(1)), Do(badCall), PrintStmt(Num(2))>>

\* { var a = 1; { print -nil; } } print 2;
ProgBlockError ==
    <<BlockStmt(<<VarStmt(Id("a"), Num(1)),
                  BlockStmt(<<PrintStmt(UnaryExpr(Kw("MINUS", "-"),
                                                  LiteralExpr(LitNil)))>>)>>),
      PrintStmt(Num(2))>>

\* fun f() { { -nil; } } f(); print 2;
ProgCallError ==
    <<Fun("f", <<>>,
          <<BlockStmt(<<Do(UnaryExpr(Kw("MINUS", "-"),
                                     LiteralExpr(LitNil)))>>)>>),
      Do(Call(Var("f"), <<>>)),
      PrintStmt(Num(2))>>

\* var a = 1;
\* { var b = 2; { var c = 3; } }
\* fun f(p) { var d = 4; while (p) { if (p) { return d; } } }
\* print f(true); print f(false);
\* class A {}
\* { class B < A {} var e = B(); }
\* print a;
ProgFrames ==
    <<VarStmt(Id("a"), Num(1)),
      BlockStmt(<<VarStmt(Id("b"), Num(2)),
                  BlockStmt(<<VarStmt(Id("c"), Num(3))>>)>>),
      Fun("f", <<"p">>,
          <<VarStmt(Id("d"), Num(4)),
            WhileStmt(Var("p"),
                      BlockStmt(<<IfStmt(Var("p"),
                                         BlockStmt(<<Ret(Var("d"))>>),
                                         None)>>))>>),
      PrintStmt(Call(Var("f"), <<LiteralExpr(LitBool(TRUE))>>)),
      PrintStmt(Call(Var("f"), <<LiteralExpr(LitBool(FALSE))>>)),
      ClassStmt(Id("A"), None, <<>>),
      BlockStmt(<<ClassStmt(Id("B"), Var("A"), <<>>),
                  VarStmt(Id("e"), Call(Var("B"), <<>>))>>),
      PrintStmt(Var("a"))>>

\* class A { m() { print 1; } n() { print 2; } }
\* class B < A { m() { print 3; } }
\* var o = B();
\* o.m; o.n; o.n = 5; o.n; o.m(); o.x; print 4;
ProgGet ==
    <<ClassStmt(Id("A"), None,
                <<Method("m", <<>>, <<PrintStmt(Num(1))>>),
                  Method("n", <<>>, <<PrintStmt(Num(2))>>)>>),
      ClassStmt(Id("B"), Var("A"),
                <<Method("m", <<>>, <<PrintStmt(Num(3))>>)>>),
      VarStmt(Id("o"), Call(Var("B"), <<>>)),
      Do(GetExpr(Var("o"), Id("m"))),
      Do(GetExpr(Var("o"), Id("n"))),
      Do(SetExpr(Var("o"), Id("n"), Num(5))),
      Do(GetExpr(Var("o"), Id("n"))),
      Do(Call(GetExpr(Var("o"), Id("m")), <<>>)),
      Do(GetExpr(Var("o"), Id("x"))),
      PrintStmt(Num(4))>>

\* what is done with a name that no global declaration defines
UndefinedUses ==
    {"read", "assign", "read hidden local", "assign hidden local"}

\* var g = 1;
\* read:                 print g; print x;
\* assign:               g = 2; x = 1;
\* read hidden local:    { fun f() { print a; } var a = 1; f(); }
\* assign hidden local:  { fun f() { a = 2; } var a = 1; f(); }
\* print g;
\* In the last two `a` is declared after f's body was resolved, so the
\* resolver leaves its slot in f unresolved.
ProgUndefined(use) ==
    <<VarStmt(Id("g"), Num(1))>>
    \o (CASE use = "read" -> <<PrintStmt(Var("g")), PrintStmt(Var("x"))>>
          [] use = "assign" ->
                <<Do(AssignExpr(Id("g"), Num(2))),
                  Do(AssignExpr(Id("x"), Num(1)))>>
          [] use = "read hidden local" ->
                <<BlockStmt(<<Fun("f", <<>>, <<PrintStmt(Var("a"))>>),
                              VarStmt(Id("a"), Num(1)),
                              Do(Call(Var("f"), <<>>))>>)>>
          [] use = "assign hidden local" ->
                <<BlockStmt(<<Fun("f", <<>>,
                                  <<Do(AssignExpr(Id("a"), Num(2)))>>),
                              VarStmt(Id("a"), Num(1)),
                              Do(Call(Var("f"), <<>>))>>)>>)
    \o <<PrintStmt(Var("g"))>>

Programs ==
    {ProgCounter, ProgRecurse, ProgMethodRecurse, ProgInitRecurse, ProgInit,
     ProgInherit, ProgSuper, ProgOwnInitializer, ProgLocals, ProgRuntimeError,
     ProgReturn, ProgSuperChain, ProgPrint}
    \cup {ProgFor(has) : has \in ForClauses}
    \cup {ProgArity(badCall) : badCall \in ArityCalls}
    \cup {ProgBlockError, ProgCallError, ProgFrames, ProgGet}
    \cup {ProgUndefined(use) : use \in UndefinedUses}

(* ---------------- specification of the interpreter -------------------- *)
\* main() has scanned, parsed and resolved; Interpreter::evaluate starts on
\* a program that resolved without error.
InitInterp ==
    /\ pc = "interpret"
    /\ exitCode = <<>>
    /\ source = <<>> /\ start = 0 /\ current = 0 /\ line = 1
    /\ tokens = <<>>
    /\ hadError = NoFlags /\ hadRuntimeError = NoFlags
    /\ pcurrent = 0
    /\ program \in {resolve(p).node : p \in {q \in Programs : ~resolve(q).r.err}}
    /\ InitMachine(NewInterpreter)

NextInterp ==
    \/ EvaluateProgram
    \/ CatchRuntimeError
    \/ EvalExpressionStmt
    \/ EvalPrintStmt
    \/ EvalVarStmt
    \/ EvalFunctionStmt
    \/ EvalIfStmt
    \/ EvalReturnStmt
    \/ EvalWhileStmt
    \/ EvalBlockStmt
    \/ EvalClassStmt
    \/ ExecuteBlock
    \/ EvalLiteralExpr
    \/ EvalGroupingExpr
    \/ EvalVarExpr
    \/ EvalThisExpr
    \/ EvalAssignExpr
    \/ EvalUnaryExpr
    \/ EvalLogicalExpr
    \/ EvalBinaryExpr
    \/ EvalGetExpr
    \/ EvalSetExpr
    \/ EvalSuperExpr
    \/ EvalCallExpr
    \/ ReturnFromFunction
    \/ ReturnFromClass

SpecInterp == InitInterp /\ [][NextInterp]_vars

\* Interpreter::evaluate runs on one thread that nothing suspends: a handler
\* that can take its next step takes it.
SpecInterpFair == InitInterp /\ [][NextInterp]_vars /\ WF_vars(NextInterp)

(* ---------------- specification of the scanner ------------------------ *)
ScanAlphabet == {"o", "r", "a", "1", ".", "+", "/", "\"", "@", " ", "\n"}

RECURSIVE SourcesOfLength(_)
\* every text of exactly n characters over ScanAlphabet
SourcesOfLength(n) ==
    IF n = 0 THEN {<<>>}
    ELSE {Append(x, c) : x \in SourcesOfLength(n - 1), c \in ScanAlphabet}

Sources == UNION {SourcesOfLength(n) : n \in 0..MaxSrcLen}

\* the state main() starts a stage in: nothing scanned, parsed or evaluated
InitStage(stage, src, toks, prog) ==
    /\ pc = stage
    /\ exitCode = <<>>
    /\ source = src /\ start = 0 /\ current = 0 /\ line = 1
    /\ tokens = toks
    /\ hadError = NoFlags /\ hadRuntimeError = NoFlags
    /\ pcurrent = 0
    /\ program = prog

InitScanner ==
    \E src \in Sources : InitStage("scan", src, <<>>, <<>>)
                         /\ InitMachine(NoInterpreter)

NextScanner == ScanToken \/ ScanEnd

SpecScanner == InitScanner /\ [][NextScanner]_vars

\* Scanner::scanTokens is a loop on one thread that nothing suspends
SpecScannerFair == InitScanner /\ [][NextScanner]_vars /\ WF_vars(NextScanner)

(* ---------------- specification of the parser ------------------------- *)
ParseAlphabet ==
    {Id("a"), Kw("PRINT", "print"), Kw("SEMICOLON", ";"), Kw("EQUAL", "="),
     Kw("LEFT_PAREN", "("), Kw("RIGHT_PAREN", ")"), Kw("NIL", "nil"),
     Kw("LEFT_BRACE", "{"), Kw("RIGHT_BRACE", "}"), Kw("VAR", "var")}

RECURSIVE TokensOfLength(_)
TokensOfLength(n) ==
    IF n = 0 THEN {<<>>}
    ELSE {Append(x, t) : x \in TokensOfLength(n - 1), t \in ParseAlphabet}

\* the tokens of `nil(nil, ..., nil);` with n arguments
TokensManyArguments(n) ==
    <<Kw("NIL", "nil"), Kw("LEFT_PAREN", "(")>>
    \o [i \in 1..(2 * n - 1) |->
          IF i % 2 = 1 THEN Kw("NIL", "nil") ELSE Kw("COMMA", ",")]
    \o <<Kw("RIGHT_PAREN", ")"), Kw("SEMICOLON", ";"), Kw("LoxEOF", "")>>

\* the tokens of `fun a(a, ..., a) { }` with n parameters
TokensManyParameters(n) ==
    <<Kw("FUN", "fun"), Id("a"), Kw("LEFT_PAREN", "(")>>
    \o [i \in 1..(2 * n - 1) |->
          IF i % 2 = 1 THEN Id("a") ELSE Kw("COMMA", ",")]
    \o <<Kw("RIGHT_PAREN", ")"), Kw("LEFT_BRACE", "{"),
         Kw("RIGHT_BRACE", "}"), Kw("LoxEOF", "")>>

\* calls and declarations at the limit of MAX_PARAMETERS and one beyond it
LongTokenLists ==
    {TokensManyArguments(MAX_PARAMETERS), TokensManyArguments(MAX_PARAMETERS + 1),
     TokensManyParameters(MAX_PARAMETERS),
     TokensManyParameters(MAX_PARAMETERS + 1)}

\* nil = nil; nil;          an error that is reported without an exception,
\*                          then a statement
TokensBadTargetThenMore ==
    <<Kw("NIL", "nil"), Kw("EQUAL", "="), Kw("NIL", "nil"),
      Kw("SEMICOLON", ";"), Kw("NIL", "nil"), Kw("SEMICOLON", ";"),
      Kw("LoxEOF", "")>>

\* { nil; nil; }
TokensBlock ==
    <<Kw("LEFT_BRACE", "{"), Kw("NIL", "nil"), Kw("SEMICOLON", ";"),
      Kw("NIL", "nil"), Kw("SEMICOLON", ";"), Kw("RIGHT_BRACE", "}"),
      Kw("LoxEOF", "")>>

\* { nil = nil; nil; nil }  the same error inside a block
TokensBlockBadTarget ==
    <<Kw("LEFT_BRACE", "{"), Kw("NIL", "nil"), Kw("EQUAL", "="),
      Kw("NIL", "nil"), Kw("SEMICOLON", ";"), Kw("NIL", "nil"),
      Kw("SEMICOLON", ";"), Kw("NIL", "nil"), Kw("RIGHT_BRACE", "}"),
      Kw("LoxEOF", "")>>

RecoveryTokenLists ==
    {TokensBadTargetThenMore, TokensBlock, TokensBlockBadTarget}

\* what Scanner::scanTokens can hand over: tokens, then the end-of-input one
TokenLists ==
    {Append(x, Kw("LoxEOF", "")) : x \in UNION {TokensOfLength(n) : n \in 0..MaxToks}}
    \cup LongTokenLists \cup RecoveryTokenLists

InitParser ==
    \E toks \in TokenLists : InitStage("parse", <<>>, toks, <<>>)
                             /\ InitMachine(NoInterpreter)

NextParser == ParseDeclaration \/ ParseEnd

SpecParser == InitParser /\ [][NextParser]_vars

\* Parser::Parse is a loop on one thread that nothing suspends
SpecParserFair == InitParser /\ [][NextParser]_vars /\ WF_vars(NextParser)

(* ---------------- specification of the resolver ----------------------- *)
\* return;
StmtTopReturn == Ret(None)
\* { return; }
StmtBlockReturn == BlockStmt(<<Ret(None)>>)
\* fun f() { return; }
StmtFunReturn == Fun("f", <<>>, <<Ret(None)>>)
\* fun f() { fun g() { return; } return; }
StmtNestedReturn ==
    Fun("f", <<>>, <<Fun("g", <<>>, <<Ret(None)>>), Ret(None)>>)
\* class A { m() { return; } }
StmtMethodReturn ==
    ClassStmt(Id("A"), None, <<Method("m", <<>>, <<Ret(None)>>)>>)
\* super.m;
StmtTopSuper == Do(SuperExpr(Kw("SUPER", "super"), Id("m")))
\* class A { m() { super.m; } }
StmtClassSuper ==
    ClassStmt(Id("A"), None, <<Method("m", <<>>, <<StmtTopSuper>>)>>)
\* class B < A { m() { super.m; } }
StmtSubclassSuper ==
    ClassStmt(Id("B"), Var("A"), <<Method("m", <<>>, <<StmtTopSuper>>)>>)
\* class B < A { m() { class D { m() { super.m; } } super.m; } }
StmtNestedSuper ==
    ClassStmt(Id("B"), Var("A"),
              <<Method("m", <<>>,
                       <<ClassStmt(Id("D"), None,
                                   <<Method("m", <<>>, <<StmtTopSuper>>)>>),
                         StmtTopSuper>>)>>)

\* var a = a;
StmtGlobalOwnRead == VarStmt(Id("a"), Var("a"))
\* { var a = a; }
StmtLocalOwnRead == BlockStmt(<<StmtGlobalOwnRead>>)
\* { var a = 1; { var a = -a; } }
StmtShadowOwnRead ==
    BlockStmt(<<VarStmt(Id("a"), Num(1)),
                BlockStmt(<<VarStmt(Id("a"),
                                    UnaryExpr(Kw("MINUS", "-"), Var("a")))>>)>>)
\* { var a = 1; { var b = a; } var c = a; }
StmtOuterRead ==
    BlockStmt(<<VarStmt(Id("a"), Num(1)),
                BlockStmt(<<VarStmt(Id("b"), Var("a"))>>),
                VarStmt(Id("c"), Var("a"))>>)
\* fun f(a) { var a = a; }
StmtParamOwnRead == Fun("f", <<"a">>, <<StmtGlobalOwnRead>>)

ResolverAlphabet ==
    {StmtTopReturn, StmtBlockReturn, StmtFunReturn, StmtNestedReturn,
     StmtMethodReturn, StmtTopSuper, StmtClassSuper, StmtSubclassSuper,
     StmtNestedSuper, StmtGlobalOwnRead, StmtLocalOwnRead, StmtShadowOwnRead,
     StmtOuterRead, StmtParamOwnRead}

RECURSIVE StmtsOfLength(_)
\* every sequence of exactly n statements of ResolverAlphabet
StmtsOfLength(n) ==
    IF n = 0 THEN {<<>>}
    ELSE {Append(x, t) : x \in StmtsOfLength(n - 1), t \in ResolverAlphabet}

ResolverPrograms == UNION {StmtsOfLength(n) : n \in 1..MaxStmts}

\* main() has scanned and parsed; resolver.resolve(ast) is about to run
InitResolver ==
    \E prog \in ResolverPrograms : InitStage("resolve", <<>>, <<>>, prog)
                                    /\ InitMachine(NoInterpreter)

NextResolver == Resolve

SpecResolver == InitResolver /\ [][NextResolver]_vars

(* ------------- specification of the Environment class ----------------- *)
\* Environment objects on their own: a chain of up to MaxChain environments,
\* the innermost one current, read with get and getAt.
MaxChain == 2
EnvironmentNames == {"a", "b"}
EnvironmentValues == {LoxNil, LoxNumber(1)}

Bindings == UNION {[S -> EnvironmentValues] : S \in SUBSET EnvironmentNames}

\* n environments built with Environment() and Environment(enclosing), each
\* enclosing the one before it, after any calls of define
Chains(n) ==
    {[i \in 1..n |-> [values |-> vs[i], enclosing |-> i - 1]] :
        vs \in [1..n -> Bindings]}

InitEnvironment ==
    \E n \in 1..MaxChain : \E chain \in Chains(n) :
        /\ InitStage("environment", <<>>, <<>>, <<>>)
        /\ InitMachine([NoInterpreter EXCEPT !.envs = chain,
                                             !.environment = n])

\* environment->get(name)
ReadGet ==
    /\ pc = "environment"
    /\ \E name \in EnvironmentNames :
          LET g == get(Machine, environment, name) IN
          Becomes(IF g.status = "ok" THEN value(g.m, g.v)
                  ELSE throw(g.m, UndefinedVariable(name)))
    /\ UNCHANGED <<pc, exitCode, source, start, current, line, tokens,
                   hadError, hadRuntimeError, pcurrent, program>>

\* environment->getAt(distance, name), the distance within the chain
ReadGetAt ==
    /\ pc = "environment"
    /\ \E distance \in 0..(environment - 1) : \E name \in EnvironmentNames :
          LET g == getAt(Machine, environment, distance, name) IN
          Becomes(value(g.m, g.v))
    /\ UNCHANGED <<pc, exitCode, source, start, current, line, tokens,
                   hadError, hadRuntimeError, pcurrent, program>>

NextEnvironment == ReadGet \/ ReadGetAt

SpecEnvironment == InitEnvironment /\ [][NextEnvironment]_vars

(* ---------------- specification of the whole driver ------------------- *)
\* @
SrcUnexpected == <<"@">>
\* print 1;
SrcPrintNumber == <<"p", "r", "i", "n", "t", " ", "1", ";">>
\* print 1+2;
SrcPrintSum == <<"p", "r", "i", "n", "t", " ", "1", "+", "2", ";">>
\* 1-2;
SrcDifference == <<"1", "-", "2", ";">>
\* print a;
SrcPrintIdentifier == <<"p", "r", "i", "n", "t", " ", "a", ";">>
\* 1
SrcNoSemicolon == <<"1">>
\* 1=2;
SrcBadTarget == <<"1", "=", "2", ";">>
\* 1=2;1;
SrcBadTargetThenMore == <<"1", "=", "2", ";", "1", ";">>
\* return;
SrcTopReturn == <<"r", "e", "t", "u", "r", "n", ";">>
\* -nil;print 1;
SrcRuntimeError == <<"-", "n", "i", "l", ";", "p", "r", "i", "n", "t", " ", "1", ";">>
\* {if(nil)1;}
SrcBlockIf == <<"{", "i", "f", "(", "n", "i", "l", ")", "1", ";", "}">>
\* while(nil)1;
SrcWhile == <<"w", "h", "i", "l", "e", "(", "n", "i", "l", ")", "1", ";">>
\* var a;
SrcVar == <<"v", "a", "r", " ", "a", ";">>
\* fun f(){}
SrcFun == <<"f", "u", "n", " ", "f", "(", ")", "{", "}">>
\* class A{}
SrcClass == <<"c", "l", "a", "s", "s", " ", "A", "{", "}">>
\* (nil) and 1;
SrcLogical == <<"(", "n", "i", "l", ")", " ", "a", "n", "d", " ", "1", ";">>
\* nil();
SrcCall == <<"n", "i", "l", "(", ")", ";">>
\* nil.a;
SrcGet == <<"n", "i", "l", ".", "a", ";">>
\* nil.a=1;
SrcSet == <<"n", "i", "l", ".", "a", "=", "1", ";">>
\* this;
SrcThis == <<"t", "h", "i", "s", ";">>
\* super.a;
SrcSuper == <<"s", "u", "p", "e", "r", ".", "a", ";">>

\* for(var a;nil;nil)1;
SrcFor == <<"f", "o", "r", "(", "v", "a", "r", " ", "a", ";", "n", "i", "l",
            ";", "n", "i", "l", ")", "1", ";">>

MainSources ==
    {SrcFor, SrcUnexpected, SrcPrintNumber, SrcPrintSum, SrcDifference,
     SrcPrintIdentifier, SrcNoSemicolon, SrcBadTarget, SrcBadTargetThenMore,
     SrcTopReturn, SrcRuntimeError, SrcBlockIf, SrcWhile,
     SrcVar, SrcFun, SrcClass, SrcLogical,
     SrcCall, SrcGet, SrcSet, SrcThis,
     SrcSuper}

InitMain ==
    \E src \in MainSources : InitStage("scan", src, <<>>, <<>>)
                             /\ InitMachine(NoInterpreter)

\* No source text makes the parser build a Variable or Assign node (primary()
\* has no IDENTIFIER case), so no text reaches their handlers or calls a
\* function or class: those actions belong to SpecInterp only.
NextMain ==
    \/ ScanToken
    \/ ScanEnd
    \/ ParseDeclaration
    \/ ParseEnd
    \/ AfterParse
    \/ Resolve
    \/ AfterResolve
    \/ EvaluateProgram
    \/ CatchRuntimeError
    \/ AfterEvaluate
    \/ EvalExpressionStmt
    \/ EvalPrintStmt
    \/ EvalVarStmt
    \/ EvalFunctionStmt
    \/ EvalIfStmt
    \/ EvalReturnStmt
    \/ EvalWhileStmt
    \/ EvalBlockStmt
    \/ EvalClassStmt
    \/ ExecuteBlock
    \/ EvalLiteralExpr
    \/ EvalGroupingExpr
    \/ EvalThisExpr
    \/ EvalUnaryExpr
    \/ EvalLogicalExpr
    \/ EvalBinaryExpr
    \/ EvalGetExpr
    \/ EvalSetExpr
    \/ EvalSuperExpr
    \/ EvalCallExpr

SpecMain == InitMain /\ [][NextMain]_vars

(* ======================= properties of the scanner ==================== *)
\* the token Scanner::identifier is specified to add for the run of letters,
\* digits and underscores that starts at cur
IdentifierRun(src, cur, ln) ==
    LET text == substr(src, cur, skipAlphaNumeric(src, cur) - cur) IN
    Token(IF text \in DOMAIN keywords THEN keywords[text] ELSE "IDENTIFIER",
          text, LitString(""), ln)

\* C4: whenever the scanner starts a token at a letter or underscore, that
\* step appends exactly one token, whose lexeme is the whole maximal run of
\* letters, digits and underscores and whose type is the keyword's when the
\* run is a reserved word and IDENTIFIER otherwise, and leaves the cursor
\* behind the run; this for every first letter.
C4_IdentifierRunIsOneToken ==
    [][(pc = "scan" /\ ~isAtEndAt(source, current)
                    /\ isAlpha(peekAt(source, current)))
       => /\ tokens' = Append(tokens, IdentifierRun(source, current, line))
          /\ current' = skipAlphaNumeric(source, current)]_vars

(* ======================= properties of the parser ===================== *)
\* the tokens of `print a;`
TokensPrintIdentifier ==
    <<Kw("PRINT", "print"), Id("a"), Kw("SEMICOLON", ";"), Kw("LoxEOF", "")>>

\* C2: the tokens of `print a;` parse to Print(Variable a), the variable
\* unresolved, and no syntax error is reported: the parser neither reports
\* nor gives up, and what it has built when it is done is that statement.
C2_IdentifierIsPrimary ==
    tokens = TokensPrintIdentifier =>
        /\ ~hadError["Parser"]
        /\ pc # "terminated"
        /\ pc = "parsed" => program = <<PrintStmt(VarExpr(Id("a")))>>

(* ======================= properties of main() ========================= *)
\* C3: every NUMBER token carries a literal of number kind; `print 1+2;`
\* prints the sum 3 and nothing else; `1-2;` raises no runtime error.
C3_NumberLiteralIsNumber ==
    /\ \A i \in 1..Len(tokens) :
          tokens[i].type = "NUMBER" => tokens[i].literal.kind = "number"
    /\ (source = SrcPrintSum /\ pc = "interpreted") => output = <<"3\n">>
    /\ (source = SrcDifference /\ pc = "interpreted") => ctrl.error = ""

\* an error was reported by the scanner, the parser or the resolver
CompileError ==
    hadError["Scanner"] \/ hadError["Parser"] \/ hadError["Resolver"]

\* C7: once the scanner has reported an error nothing is parsed, once the
\* parser has reported one nothing is resolved, after an error of any of
\* the three the interpreter is never started, and main() returns 65.
C7_CompileErrorStopsDriver ==
    /\ hadError["Scanner"] => pc \in {"scan", "exit"} /\ pcurrent = 0
    /\ hadError["Parser"] => pc \in {"parse", "parsed", "exit"}
    /\ CompileError => pc \notin {"interpret", "interpreted"} /\ output = <<>>
    /\ (CompileError /\ pc = "exit") => exitCode = <<EX_DATAERR>>

\* C8: after a runtime error was raised the flag main() tests is set, no
\* further statement runs, and main() returns 70; it returns 0 only when no
\* stage reported an error.
C8_RuntimeErrorExits70 ==
    /\ hadRuntimeError["Interpreter"] =>
          /\ hadRuntimeError["main"]
          /\ pc \in {"interpreted", "exit"}
          /\ kont = <<>>
    /\ (hadRuntimeError["Interpreter"] /\ pc = "exit") =>
          exitCode = <<EX_SOFTWARE>>
    /\ exitCode = <<EX_OK>> =>
          ~CompileError /\ ~hadRuntimeError["Interpreter"]

(* ==================== properties of the interpreter =================== *)
\* environment env has a d-th ancestor, and that ancestor binds name
Bound(env, d, name) ==
    LET a == ancestor(envs, env, d) IN
    a # 0 /\ name \in DOMAIN envs[a].values

\* the expression being evaluated is part of the initializer of a `var name`
\* statement of the block being executed
InOwnInitializer(name) ==
    \E i \in 1..Len(kont) :
        /\ kont[i].f = "VarStmt"
        /\ kont[i].node.name.lexeme = name
        /\ \A j \in (i + 1)..Len(kont) : kont[j].f # "executeBlock"

\* a Variable or this node with a scope distance is about to be looked up
AtResolvedRead ==
    /\ pc = "interpret"
    /\ ctrl.tag = "eval"
    /\ ctrl.node.type \in {"Var", "This"}
    /\ ctrl.node.distance >= 0

\* a super node with a scope distance is about to be looked up
AtResolvedSuper ==
    /\ pc = "interpret"
    /\ ctrl.tag = "eval"
    /\ ctrl.node.type = "Super"
    /\ ctrl.node.distance >= 0

\* the value of an Assign node with a scope distance is about to be stored
AtResolvedAssign ==
    /\ pc = "interpret"
    /\ ctrl.tag = "val"
    /\ kont # <<>>
    /\ Top(Machine).f = "Assign"
    /\ Top(Machine).node.distance >= 0

\* C1 as stated: for every Variable, Assign, this and super node with a
\* distance d >= 0, the d-th ancestor of the current environment exists and
\* already binds the node's name (for super also `this` at d - 1).
C1_ScopeDistanceAsStated ==
    /\ AtResolvedRead =>
          Bound(environment, ctrl.node.distance, ctrl.node.name.lexeme)
    /\ AtResolvedSuper =>
          /\ Bound(environment, ctrl.node.distance, "super")
          /\ ctrl.node.distance >= 1
          /\ Bound(environment, ctrl.node.distance - 1, "this")
    /\ AtResolvedAssign =>
          Bound(environment, Top(Machine).node.distance,
                Top(Machine).node.name.lexeme)

\* C1, amended: the d-th ancestor always exists; it already binds the name
\* for Variable, this and super nodes (for super also `this` at d - 1), and
\* for Assign nodes except an assignment inside the initializer of the
\* variable it assigns, where assignAt creates the binding.
C1_ScopeDistance ==
    /\ AtResolvedRead =>
          Bound(environment, ctrl.node.distance, ctrl.node.name.lexeme)
    /\ AtResolvedSuper =>
          /\ Bound(environment, ctrl.node.distance, "super")
          /\ ctrl.node.distance >= 1
          /\ Bound(environment, ctrl.node.distance - 1, "this")
    /\ AtResolvedAssign =>
          /\ ancestor(envs, environment, Top(Machine).node.distance) # 0
          /\ \/ Bound(environment, Top(Machine).node.distance,
                      Top(Machine).node.name.lexeme)
             \/ InOwnInitializer(Top(Machine).node.name.lexeme)

\* a variable captured by a closure is read at distance 1 during a call
C1_Witness ==
    /\ AtResolvedRead
    /\ ctrl.node.distance >= 1
    /\ function_depth >= 1

RecursivePrograms ==
    {resolve(p).node : p \in {ProgRecurse, ProgMethodRecurse, ProgInitRecurse}}

\* evaluate(Program) has ended with the runtime error "Stack overflow."
StackOverflowReported ==
    /\ pc = "interpreted"
    /\ kont = <<>>
    /\ ctrl.tag = "done"
    /\ ctrl.error = "Stack overflow."
    /\ hadRuntimeError["Interpreter"]

\* C6: a program whose function, method or initializer calls itself
\* unconditionally ends: it never has more than MAX_CALL_DEPTH + 1 calls in
\* progress, "Stack overflow." is raised, evaluation stops and
\* runtimeError() has set its flag.
C6_SelfRecursionEnds ==
    /\ [](program \in RecursivePrograms =>
            /\ function_depth <= MAX_CALL_DEPTH + 1
            /\ ctrl.tag # "undefined")
    /\ (program \in RecursivePrograms) ~> StackOverflowReported

\* the recursion was stopped with calls in progress
C6_Witness ==
    /\ program \in RecursivePrograms
    /\ StackOverflowReported
    /\ function_depth >= MAX_CALL_DEPTH

\* what the counter program prints: 1 .. MaxCounterCalls by the first
\* closure, then 1 by the second
CounterOutput ==
    [k \in 1..MaxCounterCalls |-> ToString(k) \o "\n"] \o <<"1\n">>

\* C9: in the counter program every call returns the closure it created,
\* successive calls of one closure print 1, 2, 3, and the closure of a
\* second makeCounter() starts again at 1.
C9_ClosuresKeepTheirEnvironment ==
    program = resolve(ProgCounter).node =>
        /\ ctrl.tag # "undefined"
        /\ Len(output) <= Len(CounterOutput)
        /\ output = SubSeq(CounterOutput, 1, Len(output))
        /\ pc = "interpreted" => output = CounterOutput /\ ctrl.error = ""

\* a call has just returned to the CallExpr handler
CallReturned ==
    /\ pc = "interpret"
    /\ ctrl.tag = "val"
    /\ kont # <<>>
    /\ Top(Machine).f = "Call"
    /\ Top(Machine).phase = "call"

\* C10: a call of a class returns an instance of that class, created for
\* this call, whatever its initializer (own or inherited, ending with or
\* without `return;`) returned; init called on an instance returns an
\* instance, the one it was called on (the programs print true for
\* o.init(..) == o).
C10_ClassCallReturnsInstance ==
    /\ \A i \in 1..Len(kont) :
          kont[i].f = "LoxClass" =>
             /\ kont[i - 1].f = "Call"
             /\ kont[i - 1].callee.c = "class"
             /\ kont[i].instance \in 1..Len(instances)
             /\ instances[kont[i].instance].klass = kont[i - 1].callee.id
    /\ (CallReturned /\ Top(Machine).callee.c = "class") =>
          /\ ctrl.v.k = "instance"
          /\ ctrl.v.id \in 1..Len(instances)
          /\ instances[ctrl.v.id].klass = Top(Machine).callee.id
    /\ (CallReturned /\ Top(Machine).callee.c = "function"
          /\ funs[Top(Machine).callee.id].isInitializer) =>
          ctrl.v.k = "instance" /\ ctrl.v.id \in 1..Len(instances)
    /\ (pc = "interpreted" /\ program = resolve(ProgInit).node) =>
          output = <<"1\n", "true\n", "2\n">>
    /\ (pc = "interpreted" /\ program = resolve(ProgInherit).node) =>
          output = <<"1\n", "true\n">>

\* the class with the initializer that ends in `return;` was called, init
\* was called again on the instance, and the program has printed its lines
C10_Witness ==
    /\ pc = "interpreted"
    /\ program = resolve(ProgInit).node
    /\ output = <<"1\n", "true\n", "2\n">>
    /\ Len(instances) = 1

\* the class of the given name, as an index into the heap of classes
ClassNamed(cls, n) == CHOOSE k \in 1..Len(cls) : cls[k].name = n

\* a super expression of the class chain program is about to be evaluated
AtSuperOfChain ==
    /\ pc = "interpret"
    /\ program = resolve(ProgSuperChain).node
    /\ ctrl.tag = "eval"
    /\ ctrl.node.type = "Super"

\* C11: in the program with classes A, B < A, C < B, where B's m calls
\* super.m and m is invoked on an instance of C, evaluating super.m yields
\* A's m (the method of the superclass of B, the declaring class) bound to
\* the current instance, an instance of C; the program prints the instance's
\* field from A's m and then 2 from B's m.
C11_SuperStartsAtDeclaringClass ==
    /\ [][AtSuperOfChain =>
            LET self == envs[lookup(envs, environment, "this")].values["this"]
                A == classes[ClassNamed(classes, "B")].superClass
            IN /\ classes[A].name = "A"
               /\ classes[instances[self.id].klass].name = "C"
               /\ ctrl'.tag = "val"
               /\ ctrl'.v.k = "callable" /\ ctrl'.v.c = "function"
               /\ funs'[ctrl'.v.id].declaration =
                     funs[classes[A].methods["m"]].declaration
               /\ envs'[funs'[ctrl'.v.id].closure].values["this"] = self]_vars
    /\ [](program = resolve(ProgSuperChain).node /\ pc = "interpreted"
            => output = <<"7\n", "2\n">> /\ ctrl.error = "")

\* the class chain program has run A's m on the instance of C, then the
\* rest of B's m
C11_Witness ==
    /\ program = resolve(ProgSuperChain).node
    /\ pc = "interpreted"
    /\ output = <<"7\n", "2\n">>

\* the string form the print statement is specified to write for a value
StringForm(v) ==
    CASE v.k = "nil" -> "nil"
      [] v.k = "string" -> v.s
      [] v.k = "number" -> ToString(v.n)
      [] v.k = "boolean" -> IF v.b THEN "true" ELSE "false"
      [] v.k = "callable" /\ v.c = "class" -> classes[v.id].name
      [] v.k = "callable" /\ v.c = "native" -> "<native fn>"
      [] v.k = "callable" /\ v.c = "function" ->
            "<fn " \o funs[v.id].declaration.name.lexeme \o ">"
      [] v.k = "instance" -> classes[instances[v.id].klass].name \o " instance"

\* the print statement has evaluated its expression and is about to write
AtPrint ==
    /\ pc = "interpret"
    /\ ctrl.tag = "val"
    /\ kont # <<>>
    /\ Top(Machine).f = "Print"

\* C12: the step of `print e` that writes appends exactly one line to the
\* output, the string form of e's value followed by a newline: a string as
\* its raw characters, a class as its name, a native function as
\* <native fn>, a user function as <fn NAME>, an instance as NAME instance.
C12_PrintWritesOneLine ==
    [][AtPrint => output' = Append(output, StringForm(ctrl.v) \o "\n")]_vars

\* the tokens end with an end-of-input token and hold no other one
EndsWithOneEOF(toks) ==
    /\ toks # <<>>
    /\ toks[Len(toks)].type = "LoxEOF"
    /\ \A i \in 1..(Len(toks) - 1) : toks[i].type # "LoxEOF"

\* C13: for every source scanTokens ends: each scanToken step moves the
\* cursor forward by at least one character and never past the end of the
\* source, no end-of-input token is added before the end is reached, and the
\* sequence returned holds exactly one end-of-input token, as its last
\* element.
C13_ScanTokensEnds ==
    /\ [][pc = "scan" /\ ~isAtEndAt(source, current) =>
            /\ current' > current
            /\ current' <= Len(source)
            /\ pc' = "scan"]_vars
    /\ [](pc = "scan" =>
            /\ current <= Len(source)
            /\ \A i \in 1..Len(tokens) : tokens[i].type # "LoxEOF")
    /\ [](pc = "parse" => EndsWithOneEOF(tokens))
    /\ <>(pc = "parse")

\* a source of full length holding a string literal has been scanned
C13_Witness ==
    /\ pc = "parse"
    /\ Len(source) = MaxSrcLen
    /\ EndsWithOneEOF(tokens)
    /\ \E i \in 1..Len(tokens) : tokens[i].type = "STRING"

\* the tokens of `; nil;`: a declaration with a syntax error, which ends at
\* the semicolon, followed by a well-formed statement
TokensErrorThenStatement ==
    <<Kw("SEMICOLON", ";"), Kw("NIL", "nil"), Kw("SEMICOLON", ";"),
      Kw("LoxEOF", "")>>

\* C14: a syntax error does not stop the parser: it goes on to the end of
\* the tokens, and of the tokens of `; nil;` it reports the error in the
\* first declaration and parses the statement `nil;` that follows the
\* semicolon into the Program.
C14_ParserRecovers ==
    /\ pc # "terminated"
    /\ (tokens = TokensErrorThenStatement /\ pc = "parsed") =>
          /\ hadError["Parser"]
          /\ program = <<ExpressionStmt(LiteralExpr(LitNil))>>

\* the tree { init; while (cond') { body; incr; } } of the claim, with the
\* parts that an absent clause leaves out
ForAsWhile(has) ==
    LET loopBody == IF has[3]
                    THEN BlockStmt(<<ForBody, ExpressionStmt(ForIncrement)>>)
                    ELSE ForBody
        loop == WhileStmt(IF has[2] THEN ForCondition
                          ELSE LiteralExpr(LitBool(TRUE)), loopBody)
    IN IF has[1] THEN BlockStmt(<<ForInitializer, loop>>) ELSE loop

\* the lines a for statement with the given clauses and the statement after
\* it print, and whether the loop is left by the runtime error of its body
ForOutput(has) ==
    CASE has = <<TRUE, TRUE, TRUE>> -> [lines |-> <<1, 12, 0>>, error |-> FALSE]
      [] has = <<TRUE, TRUE, FALSE>> -> [lines |-> <<1, 11, 21>>, error |-> TRUE]
      [] has = <<TRUE, FALSE, TRUE>> -> [lines |-> <<1, 12, 23>>, error |-> TRUE]
      [] has = <<TRUE, FALSE, FALSE>> -> [lines |-> <<1, 11, 21>>, error |-> TRUE]
      [] has = <<FALSE, TRUE, TRUE>> -> [lines |-> <<0, 11, 22>>, error |-> FALSE]
      [] has = <<FALSE, TRUE, FALSE>> ->
            [lines |-> <<0, 10, 20, 30>>, error |-> FALSE]
      [] has = <<FALSE, FALSE, TRUE>> -> [lines |-> <<0, 11, 22>>, error |-> TRUE]
      [] has = <<FALSE, FALSE, FALSE>> ->
            [lines |-> <<0, 10, 20, 30>>, error |-> TRUE]

\* C15: the tree forStatement builds is the while loop of the claim: body
\* and increment in a block when there is an increment, the literal true
\* for an absent condition, a block around initializer and loop when there
\* is an initializer.  Run, the increment follows the body in every
\* iteration, and a variable declared in the initializer is gone after the
\* loop: the statement after it prints the outer variable.
C15_ForIsWhile ==
    \A has \in ForClauses :
        program = resolve(ProgFor(has)).node =>
            /\ program[2] = resolve(<<VarStmt(Id("i"), Num(0)),
                                      ForAsWhile(has)>>).node[2]
            /\ pc = "interpreted" =>
                  /\ output = [k \in 1..Len(ForOutput(has).lines) |->
                                 ToString(ForOutput(has).lines[k]) \o "\n"]
                  /\ (ctrl.error # "") = ForOutput(has).error

\* the loop with all three clauses has run twice and the statement after it
\* has printed the outer variable
C15_Witness ==
    /\ program = resolve(ProgFor(<<TRUE, TRUE, TRUE>>)).node
    /\ pc = "interpreted"
    /\ output = <<"1\n", "12\n", "0\n">>

(* ======================= properties of the resolver =================== *)
\* how often the resolver wrote the message while it resolved prog
Reported(prog, message) ==
    LET errors == resolve(prog).r.errors IN
    Cardinality({i \in 1..Len(errors) : errors[i] = message})

\* how many statements of prog are among the given ones
Holds(prog, stmts) == Cardinality({i \in 1..Len(prog) : prog[i] \in stmts})

\* C16: "Can't return from top-level code." is reported once for every
\* return statement outside any function or method (at top level, also in a
\* block and also after a function declaration) and for no return statement
\* inside a function, a method, a nested function, or behind the end of a
\* nested function inside the outer one; a program with a reported return
\* leaves the resolver with hadError set.
C16_TopLevelReturnReported ==
    [][pc = "resolve" =>
         /\ Reported(program, "Can't return from top-level code.") =
               Holds(program, {StmtTopReturn, StmtBlockReturn})
         /\ resolve(program).r.currentFunction = "NONE"
         /\ Holds(program, {StmtTopReturn, StmtBlockReturn}) > 0
               => hadError'["Resolver"]
         /\ pc' = "resolved"]_vars

\* a top-level return that follows a function with a nested function has
\* been resolved and reported
C16_Witness ==
    /\ pc = "resolved"
    /\ program = resolve(<<StmtNestedReturn, StmtTopReturn>>).node
    /\ hadError["Resolver"]

\* C17: a super expression is reported exactly when the class context is
\* not that of a subclass: "outside of a class" once for each use outside
\* any class, "no superclass" once for each use in a class without
\* superclass, also when that class is nested in a method of a subclass,
\* and neither for a use in a method of a subclass, also behind such a
\* nested class; hadError is set exactly when one was reported.
C17_SuperReportedOutsideSubclass ==
    [][pc = "resolve" =>
         /\ Reported(program, "Can't use 'super' outside of a class.") =
               Holds(program, {StmtTopSuper})
         /\ Reported(program,
                     "Can't use 'super' in a class with no superclass.") =
               Holds(program, {StmtClassSuper, StmtNestedSuper})
         /\ resolve(program).r.currentClass = "NONE"
         /\ Holds(program, {StmtTopSuper, StmtClassSuper, StmtNestedSuper,
                            StmtTopReturn, StmtBlockReturn, StmtLocalOwnRead,
                            StmtShadowOwnRead, StmtParamOwnRead}) > 0
               <=> hadError'["Resolver"]]_vars

\* the subclass whose method holds a class without superclass has been
\* resolved, and the method's own use of super has its scope distance
C17_Witness ==
    /\ pc = "resolved"
    /\ program = resolve(<<StmtNestedSuper>>).node
    /\ hadError["Resolver"]
    /\ program[1].methods[1].body[2].expression.distance = 2

(* ================== properties of calls and unwinding ================= *)
\* the arity a callable was declared with: the number of parameters of a
\* function, of the initializer a class has or inherits (0 without one),
\* 0 for the native function
DeclaredArity(callee) ==
    CASE callee.c = "function" -> Len(funs[callee.id].declaration.parameters)
      [] callee.c = "native" -> 0
      [] callee.c = "class" ->
            LET init == findMethod(classes, callee.id, "init") IN
            IF init = 0 THEN 0 ELSE Len(funs[init].declaration.parameters)

\* the CallExpr handler has evaluated the callee and all arguments of a
\* call whose number of arguments is not the arity of the callable
AtMismatchedCall ==
    /\ pc = "interpret"
    /\ ctrl.tag = "val"
    /\ kont # <<>>
    /\ Top(Machine).f = "Call"
    /\ LET fr == Top(Machine)
           n == Len(fr.node.arguments)
           callee == IF fr.phase = "callee" THEN ctrl.v ELSE fr.callee
       IN /\ \/ fr.phase = "callee" /\ n = 0
             \/ fr.phase = "args" /\ Len(fr.args) + 1 = n
          /\ callee.k = "callable"
          /\ n # DeclaredArity(callee)

\* C18: a call with a number of arguments that is not the arity of the
\* callable raises a runtime error at the call: no instance is created, no
\* environment and no function object is made, nothing is printed and the
\* call-depth counter keeps its value; the program ends with what it had
\* printed before the call.
C18_ArityMismatchStopsCall ==
    /\ [][AtMismatchedCall =>
            /\ ctrl'.tag = "throw"
            /\ instances' = instances
            /\ envs' = envs /\ funs' = funs
            /\ output' = output
            /\ function_depth' = function_depth]_vars
    /\ [](\A badCall \in ArityCalls :
            (program = resolve(ProgArity(badCall)).node /\ pc = "interpreted")
               => /\ output = <<"1\n">>
                  /\ instances = <<>>
                  /\ function_depth = 0
                  /\ hadRuntimeError["Interpreter"])

\* the class that inherits an initializer with one parameter was called
\* without arguments, and the program has ended with the runtime error
C18_Witness ==
    /\ program = resolve(ProgArity(Call(Var("E"), <<>>))).node
    /\ pc = "interpreted"
    /\ hadRuntimeError["Interpreter"]
    /\ output = <<"1\n">>

\* evaluate(Program) has caught a runtime error
RuntimeErrorCaught ==
    /\ pc = "interpreted"
    /\ ctrl.tag = "done"
    /\ ctrl.error # ""

\* C19: when a runtime error raised inside blocks or function bodies has
\* reached the handler of evaluate(Program), every executeBlock it passed
\* has put back the environment it saved: the current environment is the
\* global one.
C19_UnwindRestoresEnvironment ==
    RuntimeErrorCaught => environment = Globals

\* the calls in progress: the CallExpr handlers that have entered their
\* callable and not yet left it
CallsInProgress ==
    Cardinality({i \in 1..Len(kont) :
                    kont[i].f = "Call" /\ kont[i].phase = "call"})

\* C20: the call-depth counter is the number of calls in progress, at every
\* point of the run and after it: 0 whenever no call is in progress, also
\* when a call was left by a runtime error.
C20_DepthCountsCalls ==
    pc \in {"interpret", "interpreted"} => function_depth = CallsInProgress

\* the executeBlock activations on the native stack, innermost last
BlockFrames == {i \in 1..Len(kont) : kont[i].f = "executeBlock"}

\* the environment of the innermost block or function body in execution:
\* the one its executeBlock was entered with, the globals outside every block
EnclosingEnvironment ==
    IF BlockFrames = {} THEN Globals
    ELSE kont[CHOOSE i \in BlockFrames : \A j \in BlockFrames : j <= i]
            .newenvironment

\* the interpreter is executing or has finished without a runtime error
RunsNormally ==
    \/ pc = "interpret" /\ ctrl.tag \in {"eval", "val", "res"}
    \/ pc = "interpreted" /\ ctrl.tag = "done" /\ ctrl.error = ""

\* the step about to be taken defines a name: a var statement that has its
\* value, a function declaration or a class declaration
AtDefinition ==
    /\ pc = "interpret"
    /\ \/ ctrl.tag = "val" /\ kont # <<>> /\ Top(Machine).f = "VarStmt"
       \/ ctrl.tag = "eval" /\ ctrl.node.type \in {"Function", "Class"}

\* C21: while no runtime error unwinds, the current environment is the one
\* of the innermost block or function body still in execution, so a block
\* statement, a call or a class declaration that has completed (normally or
\* by a Return) has left the environment it found; and a definition binds
\* its name in the current environment only, no other environment changes.
C21_EnvironmentRestored ==
    /\ [](RunsNormally => environment = EnclosingEnvironment)
    /\ [][AtDefinition =>
            \A e \in 1..Len(envs) :
                e # environment => envs'[e] = envs[e]]_vars

\* ProgFrames has run to its end: blocks, calls left by a Return and without
\* one, and a class declaration with a superclass inside a block have
\* completed, and the globals hold the top-level names only
C21_Witness ==
    /\ pc = "interpreted"
    /\ program = resolve(ProgFrames).node
    /\ ctrl.tag = "done" /\ ctrl.error = ""
    /\ environment = Globals
    /\ DOMAIN envs[Globals].values = {"clock", "a", "f", "A"}
    /\ Len(envs) > 6

\* a Return result has reached the activation on top of the native stack
ReturnReaches(f) ==
    /\ pc = "interpret"
    /\ ctrl.tag = "res"
    /\ ctrl.r.type = "Return"
    /\ kont # <<>>
    /\ Top(Machine).f = f

\* a Return leaves a block or a while loop at once: the activation is
\* popped and hands the same Return on, no statement and no condition is
\* evaluated
ReturnPropagates ==
    (ReturnReaches("executeBlock") \/ ReturnReaches("While")) =>
        /\ kont' = SubSeq(kont, 1, Len(kont) - 1)
        /\ ctrl' = ctrl
        /\ output' = output

\* the call that receives the Return evaluates to the value returned
ReturnConsumed ==
    (ReturnReaches("LoxFunction") /\ ~funs[Top(Machine).fn].isInitializer) =>
        /\ kont' = SubSeq(kont, 1, Len(kont) - 1)
        /\ ctrl' = [tag |-> "val", v |-> ctrl.r.value]

\* C22: a return statement executed at any depth of blocks, if branches and
\* while loops of a function body ends the body: nothing more of it runs,
\* the call evaluates to the returned value, and the caller goes on.
C22_ReturnEndsCall == [][ReturnPropagates /\ ReturnConsumed]_vars

\* the control-flow half of C22 alone
ReturnLeavesBody == [][ReturnPropagates]_vars

RECURSIVE SuperChain(_)
\* a class followed by its superclasses, nearest first
SuperChain(klass) ==
    IF klass = 0 THEN <<>>
    ELSE <<klass>> \o SuperChain(classes[klass].superClass)

\* the classes of the chain that declare a method called name
Declaring(klass, name) ==
    {i \in 1..Len(SuperChain(klass)) :
        name \in DOMAIN classes[SuperChain(klass)[i]].methods}

\* the method called name of the nearest class of the chain that declares it
NearestMethod(klass, name) ==
    LET i == CHOOSE i \in Declaring(klass, name) :
                 \A j \in Declaring(klass, name) : i <= j
    IN funs[classes[SuperChain(klass)[i]].methods[name]]

\* the Get handler has evaluated its object to an instance
AtGet ==
    /\ pc = "interpret"
    /\ ctrl.tag = "val"
    /\ kont # <<>>
    /\ Top(Machine).f = "Get"
    /\ ctrl.v.k = "instance"
    /\ ctrl.v.id # 0

\* C23: a Get on an instance yields the field of that name if there is one,
\* even when a method has the name too; otherwise the method of the nearest
\* class of the superclass chain that declares it, bound to the instance (a
\* new function with the method's declaration whose closure encloses the
\* method's closure and binds `this` to the instance); otherwise it raises
\* "Undefined property".  No instance and no class changes.
C23_GetFindsFieldThenMethod ==
    [][AtGet =>
        LET object == instances[ctrl.v.id]
            name == Top(Machine).node.name.lexeme
        IN /\ instances' = instances
           /\ classes' = classes
           /\ IF name \in DOMAIN object.fields
              THEN ctrl' = [tag |-> "val", v |-> object.fields[name]]
              ELSE IF Declaring(object.klass, name) # {}
              THEN LET method == NearestMethod(object.klass, name)
                       bound == funs'[Len(funs')]
                   IN /\ ctrl' = [tag |-> "val",
                                  v |-> FunctionValue(Len(funs) + 1)]
                      /\ Len(funs') = Len(funs) + 1
                      /\ bound.declaration = method.declaration
                      /\ bound.isInitializer = method.isInitializer
                      /\ envs'[bound.closure].enclosing = method.closure
                      /\ envs'[bound.closure].values =
                            put(EmptyMap, "this", ctrl.v)
              ELSE ctrl' = [tag |-> "throw",
                            msg |-> "Undefined property '" \o name \o "'."]
    ]_vars

\* ProgGet has read an overriding method, an inherited method, a field that
\* hides a method and, last, a property that does not exist
C23_Witness ==
    /\ pc = "interpreted"
    /\ program = resolve(ProgGet).node
    /\ ctrl.tag = "done"
    /\ ctrl.error = "Undefined property 'x'."
    /\ output = <<"3\n">>
    /\ instances[1].fields = put(EmptyMap, "n", LoxNumber(5))

\* a Variable node whose slot the resolver left unresolved is about to be
\* looked up
AtUnresolvedRead ==
    /\ pc = "interpret"
    /\ ctrl.tag = "eval"
    /\ ctrl.node.type = "Var"
    /\ ctrl.node.distance = Unresolved

\* the value of an Assign node with an unresolved slot is about to be stored
AtUnresolvedAssign ==
    /\ pc = "interpret"
    /\ ctrl.tag = "val"
    /\ kont # <<>>
    /\ Top(Machine).f = "Assign"
    /\ Top(Machine).node.distance = Unresolved

\* the runtime error a missing global raises
RaisesUndefinedVariable(name) ==
    /\ ctrl' = [tag |-> "throw", msg |-> "Undefined variable '" \o name \o "'."]
    /\ envs' = envs

\* C24: a read or an assignment of an unresolved name looks at the global
\* environment only.  If the globals define the name, the read yields their
\* value and the assignment replaces it; if they do not, "Undefined
\* variable" is raised and no environment changes (the failed assignment
\* creates no binding), also when an environment of the current chain binds
\* the name.
C24_MissingGlobalIsAnError ==
    [][/\ AtUnresolvedRead =>
            LET name == ctrl.node.name.lexeme IN
            IF name \in DOMAIN envs[Globals].values
            THEN /\ ctrl' = [tag |-> "val", v |-> envs[Globals].values[name]]
                 /\ envs' = envs
            ELSE RaisesUndefinedVariable(name)
       /\ AtUnresolvedAssign =>
            LET name == Top(Machine).node.name.lexeme IN
            IF name \in DOMAIN envs[Globals].values
            THEN /\ ctrl' = ctrl
                 /\ envs' = [envs EXCEPT ![Globals].values =
                                [n \in DOMAIN @ |->
                                    IF n = name THEN ctrl.v ELSE @[n]]]
            ELSE RaisesUndefinedVariable(name)
    ]_vars

\* an unresolved name that the globals lack and the current chain binds has
\* been read or assigned, and the error was raised with the local binding
\* and the globals as they were
C24_Witness ==
    /\ pc = "interpreted"
    /\ \E use \in {"read hidden local", "assign hidden local"} :
          program = resolve(ProgUndefined(use)).node
    /\ ctrl.tag = "done"
    /\ ctrl.error = "Undefined variable 'a'."
    /\ lookup(envs, environment, "a") \notin {0, Globals}
    /\ envs[lookup(envs, environment, "a")].values["a"] = LoxNumber(1)
    /\ DOMAIN envs[Globals].values = {"clock", "g"}

RECURSIVE ReadsOf(_, _), ReadsOfAll(_, _)
\* how many Variable nodes named name the expression e holds
ReadsOf(e, name) ==
    CASE e.type = "Var" -> IF e.name.lexeme = name THEN 1 ELSE 0
      [] e.type \in {"Binary", "Logical"} ->
            ReadsOf(e.left, name) + ReadsOf(e.right, name)
      [] e.type \in {"Grouping", "Unary"} -> ReadsOf(e.expression, name)
      [] e.type = "Assign" -> ReadsOf(e.value, name)
      [] e.type = "Call" ->
            ReadsOf(e.callee, name) + ReadsOfAll(e.arguments, name)
      [] e.type = "Get" -> ReadsOf(e.object, name)
      [] e.type = "Set" -> ReadsOf(e.object, name) + ReadsOf(e.value, name)
      [] OTHER -> 0

ReadsOfAll(es, name) ==
    IF es = <<>> THEN 0 ELSE ReadsOf(Head(es), name) + ReadsOfAll(Tail(es), name)

RECURSIVE OwnReads(_, _), OwnReadsAll(_, _)
\* how many Variable nodes of the statement s stand in the initializer of a
\* var statement for their own name that is inside a block, a function or a
\* method; local tells whether s itself is inside one
OwnReads(s, local) ==
    CASE s.type = "VarStmt" ->
            IF local THEN ReadsOf(s.initializer, s.name.lexeme) ELSE 0
      [] s.type = "Block" -> OwnReadsAll(s.statements, TRUE)
      [] s.type = "Function" -> OwnReadsAll(s.body, TRUE)
      [] s.type = "Class" ->
            OwnReadsAll([i \in 1..Len(s.methods) |->
                            BlockStmt(s.methods[i].body)], TRUE)
      [] s.type = "While" -> OwnReads(s.body, local)
      [] s.type = "If" ->
            OwnReads(s.thenBranch, local)
            + (IF s.elseBranch # None THEN OwnReads(s.elseBranch, local) ELSE 0)
      [] OTHER -> 0

OwnReadsAll(ss, local) ==
    IF ss = <<>> THEN 0
    ELSE OwnReads(Head(ss), local) + OwnReadsAll(Tail(ss), local)

\* a Resolver inside one local scope
InLocalScope == beginScope(NewResolver)

\* C25: in a local scope declare marks the name false and the var statement
\* leaves it marked true; at global scope neither records anything.  "Can't
\* read local variable in its own initializer." is reported once for every
\* Variable node inside the initializer of a local var statement for the
\* same name, whether or not an outer scope has the name, and for no other
\* Variable node, none at global scope in particular.
C25_OwnInitializerReported ==
    [][pc = "resolve" =>
         /\ Reported(program,
                     "Can't read local variable in its own initializer.") =
               OwnReadsAll(program, FALSE)
         /\ OwnReadsAll(program, FALSE) > 0 => hadError'["Resolver"]
         /\ declare(InLocalScope, "a").scopes = <<put(EmptyMap, "a", FALSE)>>
         /\ resolveStmt(VarStmt(Id("a"), Num(1)), InLocalScope).r.scopes =
               <<put(EmptyMap, "a", TRUE)>>
         /\ resolveStmt(StmtGlobalOwnRead, NewResolver).r.scopes = <<>>
         /\ resolveStmt(StmtGlobalOwnRead, NewResolver).r.errors = <<>>
         /\ pc' = "resolved"]_vars

\* a block whose variable reads the outer variable of the same name in its
\* own initializer has been resolved after a global `var a = a;`: one
\* report, the global read left unresolved
C25_Witness ==
    /\ pc = "resolved"
    /\ program = resolve(<<StmtGlobalOwnRead, StmtShadowOwnRead>>).node
    /\ Reported(<<StmtGlobalOwnRead, StmtShadowOwnRead>>,
                "Can't read local variable in its own initializer.") = 1
    /\ program[1].initializer.distance = Unresolved
    /\ hadError["Resolver"]

\* the scanner is about to scan the character c at the cursor
Scanning == pc = "scan" /\ ~isAtEndAt(source, current)

\* c starts no lexeme of Lox and is not white space
UnknownCharacter(c) ==
    /\ c \notin DOMAIN SingleCharTokens
    /\ c \notin {"!", "=", "<", ">", "/", "\"", " ", "\r", "\t", "\n"}
    /\ ~isDigit(c)
    /\ ~isAlpha(c)

\* a string opens at the cursor and no quote closes it
UnterminatedString ==
    /\ peekAt(source, current) = "\""
    /\ \A j \in (current + 2)..Len(source) : source[j] # "\""

\* white space, a newline, or a comment starts at the cursor
SkippedText ==
    \/ peekAt(source, current) \in {" ", "\r", "\t", "\n"}
    \/ peekAt(source, current) = "/" /\ peekNextAt(source, current) = "/"

\* an unknown character and an unterminated string are reported without a
\* token, and scanning goes on behind the unknown character
LexicalErrorReported ==
    /\ (Scanning /\ UnknownCharacter(peekAt(source, current))) =>
          /\ hadError'["Scanner"]
          /\ tokens' = tokens
          /\ current' = current + 1
          /\ line' = line
          /\ pc' = "scan"
    /\ (Scanning /\ UnterminatedString) =>
          /\ hadError'["Scanner"]
          /\ tokens' = tokens
          /\ pc' = "scan"

\* text that yields no token and is not skipped is reported
SilenceIsReported ==
    (Scanning /\ tokens' = tokens /\ ~SkippedText) => hadError'["Scanner"]

\* C26: an unknown character or an unterminated string sets hadError and
\* adds no token, and the scan goes on with the next character; conversely
\* every scanning step that adds no token and skips neither white space
\* nor a comment has reported an error.
C26_LexicalErrorsReported ==
    [][LexicalErrorReported /\ SilenceIsReported]_vars

\* the first half of C26 alone
LexicalErrorsDoNotHalt == [][LexicalErrorReported]_vars

\* the statement is a call with more arguments than MAX_PARAMETERS
TooManyArguments(s) ==
    /\ s.type = "Expression"
    /\ s.expression.type = "Call"
    /\ Len(s.expression.arguments) > MAX_PARAMETERS

\* the statement declares a function with more parameters than
\* MAX_PARAMETERS
TooManyParameters(s) ==
    /\ s.type = "Function"
    /\ Len(s.parameters) > MAX_PARAMETERS

\* the parser went through the whole list of a declaration with too many
\* parameters and reported it
ParameterCapReported ==
    /\ (pc \in {"parse", "parsed"} /\ tokens \in LongTokenLists) =>
          \A i \in 1..Len(program) :
              TooManyParameters(program[i]) => hadError["Parser"]
    /\ tokens \in LongTokenLists => pc # "terminated"

\* C27: the parser reads a list of more than 255 arguments or parameters to
\* its end without giving up, and in both cases hadError is set when the
\* statement has been parsed.
C27_ArityCapReported ==
    /\ ParameterCapReported
    /\ (pc \in {"parse", "parsed"} /\ tokens \in LongTokenLists) =>
          \A i \in 1..Len(program) :
              TooManyArguments(program[i]) => hadError["Parser"]

\* a declaration with MAX_PARAMETERS + 1 parameters has been parsed and
\* reported; one with MAX_PARAMETERS parameters is parsed without a report
ParameterCapWitness ==
    /\ pc = "parsed"
    /\ tokens = TokensManyParameters(MAX_PARAMETERS + 1)
    /\ Len(program) = 1
    /\ TooManyParameters(program[1])
    /\ hadError["Parser"]

\* the cursor is at a token, the end-of-input token at the latest
CursorInTokens == pcurrent + 1 <= Len(tokens)

\* wherever a declaration starts, at the cursor of Parse or at one of the
\* loop of block, with hadError set or not: it consumes a token or throws,
\* stays within the tokens and never reads tokens[-1]
DeclarationsAdvance ==
    \A c \in 0..(Len(tokens) - 2) : \A flag \in BOOLEAN :
        \A d \in {declaration(ParserAt(c, flag))} :
            /\ ~d.wild
            /\ d.cur + 1 <= Len(tokens)
            /\ d.thrown \/ d.cur > c

\* C28: Parse terminates on every token list that ends with the end-of-input
\* token.  The cursor never leaves the tokens, previous() never reads in
\* front of the first token, every declaration, started anywhere, consumes
\* a token or throws, every pass of the loop of Parse moves the cursor
\* forward or ends the parse, and the parse ends.
C28_ParseTerminates ==
    /\ [](CursorInTokens /\ pc # "undefined")
    /\ [](pc = "parse" => DeclarationsAdvance)
    /\ [][pc = "parse" => (pcurrent' > pcurrent \/ pc' # "parse")]_vars
    /\ <>(pc \in {"parsed", "terminated"})

\* the parse of `nil = nil; nil;` has ended: the error was reported without
\* an exception, the next pass of the loop went through synchronize(), and
\* the cursor is at the end-of-input token
C28_Witness ==
    /\ tokens = TokensBadTargetThenMore
    /\ pc = "parsed"
    /\ hadError["Parser"]
    /\ pcurrent + 1 = Len(tokens)
    /\ Len(program) = 2

RECURSIVE DepthsOf(_, _), DepthsOfAll(_, _), DepthsOfMethods(_, _)
\* the number of scopes around the statement s and around every statement
\* inside it, in the order of the text, when d scopes surround s: a block
\* and a function body add one, the methods of a class stand in the scope
\* of `this`, inside that of `super` if the class has a superclass
DepthsOf(s, d) ==
    <<d>> \o
    (CASE s.type = "Block" -> DepthsOfAll(s.statements, d + 1)
       [] s.type = "Function" -> DepthsOfAll(s.body, d + 1)
       [] s.type = "Class" ->
             DepthsOfMethods(s.methods,
                             d + (IF s.super_class # None THEN 2 ELSE 1))
       [] s.type = "While" -> DepthsOf(s.body, d)
       [] s.type = "If" ->
             DepthsOf(s.thenBranch, d)
             \o (IF s.elseBranch # None THEN DepthsOf(s.elseBranch, d)
                 ELSE <<>>)
       [] OTHER -> <<>>)

DepthsOfAll(ss, d) ==
    IF ss = <<>> THEN <<>>
    ELSE DepthsOf(Head(ss), d) \o DepthsOfAll(Tail(ss), d)

DepthsOfMethods(ms, d) ==
    IF ms = <<>> THEN <<>>
    ELSE DepthsOfAll(Head(ms).body, d + 1) \o DepthsOfMethods(Tail(ms), d)

\* C29: the resolver visits every statement with as many scopes on its stack
\* as blocks, function bodies and class scopes (`this`, and `super` for a
\* subclass) surround the statement, and when resolve(program) returns, with
\* or without reported errors, the stack is empty and the function and
\* class contexts are none.
C29_ScopesBalanced ==
    [][pc = "resolve" =>
         /\ resolve(program).r.depths = DepthsOfAll(program, 0)
         /\ resolve(program).r.scopes = <<>>
         /\ resolve(program).r.currentFunction = "NONE"
         /\ resolve(program).r.currentClass = "NONE"
         /\ pc' = "resolved"]_vars

\* a subclass with a class nested in its method, with reported errors, and
\* nested blocks with a reported error have been resolved: statements were
\* visited under up to five scopes
C29_Witness ==
    /\ pc = "resolved"
    /\ program = resolve(<<StmtNestedSuper, StmtShadowOwnRead>>).node
    /\ hadError["Resolver"]
    /\ DepthsOfAll(<<StmtNestedSuper, StmtShadowOwnRead>>, 0) =
          <<0, 3, 5, 3, 0, 1, 1, 2>>

\* Environment::get leaves every environment as it was, whether it finds the
\* name or throws
GetLeavesBindings == [][ReadGet => envs' = envs]_vars

\* C30: a read changes no environment: after get(name) and after
\* getAt(distance, name), for every distance within the chain and every
\* name, bound or not in the environment addressed, every environment of
\* the chain has the bindings it had before.
C30_ReadsChangeNothing == [][pc = "environment" => envs' = envs]_vars

=============================================================================
